---- MODULE Spec2Model ----
(***************************************************************************)
(* A model of the agent orchestrator (AgentManager), the base agent and    *)
(* its two concrete agents, and the knowledge index (RAGSystem) of         *)
(* notion-write.                                                           *)
(*                                                                         *)
(* Strings the code inspects character by character (chat messages, the    *)
(* routing phrases) are sequences of one-character strings, so that        *)
(* toLowerCase, includes and split are computed, not assumed.  Timestamps  *)
(* (createdAt, updatedAt, timestamp) are left out of the records: no       *)
(* operation reads them.                                                   *)
(***************************************************************************)
EXTENDS Integers, Sequences, FiniteSets, TLC

VARIABLES
    agents,            \* AgentManager.agents: the registered AgentTypes
    activeContexts,    \* AgentManager.activeContexts: the registered conversationIds
    previousMessages,  \* conversationId -> history, of every context object created
    tasks,             \* task id -> AgentTask, of every task object created
    collection,        \* RAGSystem.collection: "null", a handle, or a "stale" handle
    store,             \* the vector store's collection: entry id -> entry
    pages,             \* the Content Store: page id -> page
    calls,             \* how often each external service / agent code was entered
    last,              \* what the most recent chat, executeTask or index call returned
    indexed,           \* the Content Store and the items' fate at the last complete index run
    routed,            \* the message under classification and its AgentType
    appended,          \* every entry handed to addToConversation, in order
    pending,           \* the calls suspended at an external request
    sessionData,       \* conversationId -> sessionData, of every context object created
    agentManager       \* the gateway's manager object: "manager", or "null"

vars == <<agents, activeContexts, previousMessages, tasks, collection, store,
          pages, calls, last, indexed, routed, appended, pending, sessionData,
          agentManager>>

orchestratorVars == <<agents, activeContexts, previousMessages, tasks, calls>>
indexVars == <<collection, store, pages, indexed>>

None == "none"

(***************************************************************************)
(* Bounds of the model.                                                    *)
(***************************************************************************)
MaxWords == 2        \* words per generated message (routing)
MaxContexts == 1     \* context objects ever created (orchestrator)
MaxCalls == 1        \* chat / executeTask calls (orchestrator)
MaxExecs == 2        \* executeTask calls (task lifecycle)
MaxCallerTasks == 1  \* tasks constructed by the caller (orchestrator)
MaxTurns == 11       \* chat turns of the long conversation
MaxAppends == 3      \* addToConversation calls after the initial history
MaxIndexOps == 4     \* operations on the knowledge index
MaxSearchOps == 3    \* operations on the knowledge index (search)
MaxContextOps == 3   \* calls on the orchestrator and the index together
MaxTextLen == 5      \* characters of a generated text
MaxTasks == 2        \* tasks of a breakdown the model returns
MaxRepairs == 3      \* repairs of one breakdown
MaxRequestHistory == 7 \* entries of the history generateResponse starts from
MaxRequestOps == 2   \* calls of addDocument and generateResponse
MaxAsyncOps == 3     \* calls started while others are in flight
MaxAsyncContexts == 2 \* context objects created while calls are in flight
MaxPending == 2      \* calls in flight at once
MaxGatewayOps == 2   \* tool calls at the gateway

(***************************************************************************)
(* Program constants.                                                      *)
(***************************************************************************)
HistoryCap == 20     \* addToConversation keeps the last 20 messages
TopicWords == 3      \* extractTopicFromMessage keeps 3 words
ProjectWords == 5    \* extractProjectFromMessage keeps 5 words
MinWordLen == 2      \* both keep words with length > 2
DefaultLimit == 5    \* searchKnowledge: limit defaults to 5
WebLimit == 3        \* webSearch: limit defaults to 3
IndexedBudget == 500 \* getContextForQuery: characters kept of an indexed result
WebBudget == 300     \* getContextForQuery: characters kept of a web result
HistoryWindow == 5   \* generateResponse: history entries sent with a request

(***************************************************************************)
(* Strings.                                                                *)
(***************************************************************************)
UpperCase == <<"A","B","C","D","E","F","G","H","I","J","K","L","M",
               "N","O","P","Q","R","S","T","U","V","W","X","Y","Z">>
LowerCase == <<"a","b","c","d","e","f","g","h","i","j","k","l","m",
               "n","o","p","q","r","s","t","u","v","w","x","y","z">>

\* String.prototype.toLowerCase on one character
LowerChar(c) ==
    IF \E i \in 1..Len(UpperCase) : UpperCase[i] = c
    THEN LowerCase[CHOOSE i \in 1..Len(UpperCase) : UpperCase[i] = c]
    ELSE c

\* String.prototype.toLowerCase
ToLowerCase(s) == [i \in 1..Len(s) |-> LowerChar(s[i])]

\* String.prototype.includes
Includes(s, sub) ==
    \E i \in 0..(Len(s) - Len(sub)) : SubSeq(s, i + 1, i + Len(sub)) = sub

\* String.prototype.split(' '): the maximal space-free pieces, empty ones included
RECURSIVE Split(_)
Split(s) ==
    IF \A i \in 1..Len(s) : s[i] # " "
    THEN <<s>>
    ELSE LET k == CHOOSE i \in 1..Len(s) :
                      s[i] = " " /\ \A j \in 1..(i - 1) : s[j] # " "
         IN <<SubSeq(s, 1, k - 1)>> \o Split(SubSeq(s, k + 1, Len(s)))

\* Array.prototype.join(' ')
RECURSIVE JoinWords(_)
JoinWords(ws) ==
    IF Len(ws) = 0 THEN <<>>
    ELSE IF Len(ws) = 1 THEN ws[1]
    ELSE ws[1] \o <<" ">> \o JoinWords(Tail(ws))

\* Array.prototype.slice(0, n)
FirstN(s, n) == SubSeq(s, 1, IF Len(s) < n THEN Len(s) ELSE n)

\* Array.prototype.slice(-n)
LastN(s, n) == SubSeq(s, IF Len(s) > n THEN Len(s) - n + 1 ELSE 1, Len(s))

(***************************************************************************)
(* AgentManager: routing.                                                  *)
(***************************************************************************)
DetermineBestAgentRowsSwapped(message) ==
    LET lowerMessage == ToLowerCase(message)
    IN IF \/ Includes(lowerMessage, <<"p","l","a","n">>)
          \/ Includes(lowerMessage, <<"p","r","o","j","e","c","t">>)
          \/ Includes(lowerMessage, <<"t","a","s","k","s">>)
          \/ Includes(lowerMessage, <<"t","i","m","e","l","i","n","e">>)
       THEN "task-planning"
       ELSE IF \/ Includes(lowerMessage, <<"r","e","s","e","a","r","c","h">>)
               \/ Includes(lowerMessage, <<"i","n","f","o","r","m","a","t","i","o","n">>)
               \/ Includes(lowerMessage, <<"l","e","a","r","n"," ","a","b","o","u","t">>)
       THEN "content-research"
       ELSE IF \/ Includes(lowerMessage, <<"s","e","a","r","c","h">>)
               \/ Includes(lowerMessage, <<"f","i","n","d">>)
               \/ Includes(lowerMessage, <<"s","h","o","w"," ","m","e">>)
       THEN "notion-intelligence"
       ELSE IF \/ Includes(lowerMessage, <<"i","m","p","r","o","v","e">>)
               \/ Includes(lowerMessage, <<"e","n","h","a","n","c","e">>)
               \/ Includes(lowerMessage, <<"b","e","t","t","e","r">>)
       THEN "content-enhancement"
       ELSE IF \/ Includes(lowerMessage, <<"d","a","t","a","b","a","s","e">>)
               \/ Includes(lowerMessage, <<"s","t","r","u","c","t","u","r","e">>)
               \/ Includes(lowerMessage, <<"o","r","g","a","n","i","z","e">>)
       THEN "database-architect"
       ELSE IF \/ Includes(lowerMessage, <<"a","n","a","l","y","t","i","c","s">>)
               \/ Includes(lowerMessage, <<"i","n","s","i","g","h","t","s">>)
               \/ Includes(lowerMessage, <<"t","r","e","n","d","s">>)
       THEN "analytics"
       ELSE "content-research"

\* AgentManager.determineBestAgent (routeIntent)
DetermineBestAgent(message) ==
    LET lowerMessage == ToLowerCase(message)
    IN IF \/ Includes(lowerMessage, <<"r","e","s","e","a","r","c","h">>)
          \/ Includes(lowerMessage, <<"i","n","f","o","r","m","a","t","i","o","n">>)
          \/ Includes(lowerMessage, <<"l","e","a","r","n"," ","a","b","o","u","t">>)
       THEN "content-research"
       ELSE IF \/ Includes(lowerMessage, <<"p","l","a","n">>)
               \/ Includes(lowerMessage, <<"p","r","o","j","e","c","t">>)
               \/ Includes(lowerMessage, <<"t","a","s","k","s">>)
               \/ Includes(lowerMessage, <<"t","i","m","e","l","i","n","e">>)
       THEN "task-planning"
       ELSE IF \/ Includes(lowerMessage, <<"s","e","a","r","c","h">>)
               \/ Includes(lowerMessage, <<"f","i","n","d">>)
               \/ Includes(lowerMessage, <<"s","h","o","w"," ","m","e">>)
       THEN "notion-intelligence"
       ELSE IF \/ Includes(lowerMessage, <<"i","m","p","r","o","v","e">>)
               \/ Includes(lowerMessage, <<"e","n","h","a","n","c","e">>)
               \/ Includes(lowerMessage, <<"b","e","t","t","e","r">>)
       THEN "content-enhancement"
       ELSE IF \/ Includes(lowerMessage, <<"d","a","t","a","b","a","s","e">>)
               \/ Includes(lowerMessage, <<"s","t","r","u","c","t","u","r","e">>)
               \/ Includes(lowerMessage, <<"o","r","g","a","n","i","z","e">>)
       THEN "database-architect"
       ELSE IF \/ Includes(lowerMessage, <<"a","n","a","l","y","t","i","c","s">>)
               \/ Includes(lowerMessage, <<"i","n","s","i","g","h","t","s">>)
               \/ Includes(lowerMessage, <<"t","r","e","n","d","s">>)
       THEN "analytics"
       ELSE "content-research"

\* AgentManager.extractTopicFromMessage
ExtractTopicFromMessage(message) ==
    LET words == Split(ToLowerCase(message))
        stopWords == {<<"r","e","s","e","a","r","c","h">>, <<"a","b","o","u","t">>,
                      <<"t","e","l","l">>, <<"m","e">>, <<"w","h","a","t">>,
                      <<"i","s">>, <<"h","o","w">>, <<"c","r","e","a","t","e">>,
                      <<"p","a","g","e">>, <<"f","o","r">>}
        Keep(word) == word \notin stopWords /\ Len(word) > MinWordLen
        topic == JoinWords(FirstN(SelectSeq(words, Keep), TopicWords))
    IN IF topic = <<>>
       THEN <<"g","e","n","e","r","a","l"," ","t","o","p","i","c">>
       ELSE topic

\* AgentManager.extractProjectFromMessage
ExtractProjectFromMessage(message) ==
    LET words == Split(ToLowerCase(message))
        stopWords == {<<"p","l","a","n">>, <<"p","r","o","j","e","c","t">>,
                      <<"f","o","r">>, <<"c","r","e","a","t","e">>, <<"m","a","k","e">>,
                      <<"b","u","i","l","d">>, <<"d","e","v","e","l","o","p">>}
        Keep(word) == word \notin stopWords /\ Len(word) > MinWordLen
        project == JoinWords(FirstN(SelectSeq(words, Keep), ProjectWords))
    IN IF project = <<>>
       THEN <<"g","e","n","e","r","a","l"," ","p","r","o","j","e","c","t">>
       ELSE project

(***************************************************************************)
(* BaseAgent: conversation and task helpers.                               *)
(***************************************************************************)
Undefined == "undefined"
Null == "null"

\* a ChatMessage. content is [kind, text]: a user message is kind "message"
\* with its text; a generated or templated reply is named by kind, and text
\* holds the topic or project the template quotes
Entry(role, content, metadata) ==
    [role |-> role, content |-> content, metadata |-> metadata]

AddToConversationKeepsOldest(history, role, content, metadata) ==
    LET pushed == Append(history, Entry(role, content, metadata))
    IN IF Len(pushed) > HistoryCap THEN FirstN(pushed, HistoryCap) ELSE pushed

\* BaseAgent.addToConversation: push, then keep the last HistoryCap messages
AddToConversation(history, role, content, metadata) ==
    LET pushed == Append(history, Entry(role, content, metadata))
    IN IF Len(pushed) > HistoryCap THEN LastN(pushed, HistoryCap) ELSE pushed

\* BaseAgent.createTask
CreateTask(agentType, description, parameters) ==
    [type |-> agentType, description |-> description, parameters |-> parameters,
     status |-> "pending", result |-> Undefined, error |-> Undefined]

\* BaseAgent.updateTaskStatus: result is stored unless undefined, error unless falsy
UpdateTaskStatus(task, status, result, error) ==
    [task EXCEPT !.status = status,
                 !.result = IF result # Undefined THEN result ELSE @,
                 !.error = IF error \notin {Undefined, ""} THEN error ELSE @]

\* parameters of an AgentTask. topic and projectDescription are strings, the
\* empty string when the caller left them out (both are falsy); the flags are
\* "true", "false" or Undefined when left out
Parameters(topic, projectDescription, includeWeb, createPage, createDatabase) ==
    [topic |-> topic, projectDescription |-> projectDescription,
     includeWeb |-> includeWeb, createPage |-> createPage,
     createDatabase |-> createDatabase]

\* destructuring default: `x = d` yields d when the field is undefined
Default(value, d) == IF value = Undefined THEN d ELSE value = "true"

(***************************************************************************)
(* The environment of one call: which external requests fail.              *)
(*   ragFailAt  the knowledge-index query of the call that throws (0: none)*)
(*   llm        "throws", or the kind of text the model generates          *)
(*   notion     whether the Content Store accepts writes                   *)
(***************************************************************************)
Envs ==
    {[ragFailAt |-> 0, llm |-> "plan", notion |-> TRUE],
     [ragFailAt |-> 0, llm |-> "prose", notion |-> TRUE],
     [ragFailAt |-> 0, llm |-> "object", notion |-> TRUE],
     [ragFailAt |-> 0, llm |-> "throws", notion |-> TRUE],
     [ragFailAt |-> 1, llm |-> "plan", notion |-> TRUE],
     [ragFailAt |-> 2, llm |-> "plan", notion |-> TRUE],
     [ragFailAt |-> 0, llm |-> "plan", notion |-> FALSE]}

ErrRag == "Knowledge index request failed"
ErrLlm == "Text generation request failed"
ErrNotion == "Content store request failed"
ErrTopic == "Topic parameter is required for content research"
ErrProject == "Project description is required for task planning"
ErrMainTasks == "Cannot read properties of undefined (reading 'map')"

NoCalls == [rag |-> 0, web |-> 0, llm |-> 0, notion |-> 0]

GetContextForQueryAlwaysWeb(includeWeb, env, done) ==
    IF env.ragFailAt = done.rag + 1
    THEN [ok |-> FALSE, error |-> ErrRag,
          done |-> [done EXCEPT !.rag = @ + 1]]
    ELSE [ok |-> TRUE, error |-> Undefined,
          done |-> [done EXCEPT !.rag = @ + 1, !.web = @ + 1]]

\* RAGSystem.getContextForQuery as seen by an agent: searchKnowledge always,
\* webSearch (which never throws) only if includeWeb. `done` is the number of
\* external requests of each kind the call has made so far.
GetContextForQuery(includeWeb, env, done) ==
    IF env.ragFailAt = done.rag + 1
    THEN [ok |-> FALSE, error |-> ErrRag,
          done |-> [done EXCEPT !.rag = @ + 1]]
    ELSE [ok |-> TRUE, error |-> Undefined,
          done |-> [done EXCEPT !.rag = @ + 1,
                                !.web = IF includeWeb THEN @ + 1 ELSE @]]

\* BaseAgent.generateResponse: retrieval if includeRAG, then one completion;
\* every failure is rethrown
GenerateResponse(includeRAG, includeWeb, env, done) ==
    LET rag == IF includeRAG
               THEN GetContextForQuery(includeWeb, env, done)
               ELSE [ok |-> TRUE, error |-> Undefined, done |-> done]
    IN IF ~rag.ok
       THEN [ok |-> FALSE, error |-> rag.error, text |-> Undefined, done |-> rag.done]
       ELSE IF env.llm = "throws"
       THEN [ok |-> FALSE, error |-> ErrLlm, text |-> Undefined,
             done |-> [rag.done EXCEPT !.llm = @ + 1]]
       ELSE [ok |-> TRUE, error |-> Undefined,
             text |-> IF env.llm = "" THEN "No response generated" ELSE env.llm,
             done |-> [rag.done EXCEPT !.llm = @ + 1]]

(***************************************************************************)
(* BaseAgent.generateStructuredResponse on the generated text. A text is a *)
(* sequence of characters; "m" stands for one member "key": value of a     *)
(* JSON object and "p" for a character of prose.                           *)
(***************************************************************************)
Chars == {" ", "p", "{", "}", "m", ","}

\* String.prototype.trim
RECURSIVE TrimLeft(_)
TrimLeft(s) == IF s # <<>> /\ Head(s) = " " THEN TrimLeft(Tail(s)) ELSE s

RECURSIVE TrimRight(_)
TrimRight(s) ==
    IF s # <<>> /\ s[Len(s)] = " " THEN TrimRight(SubSeq(s, 1, Len(s) - 1)) ELSE s

Trim(s) == TrimRight(TrimLeft(s))

\* String.prototype.indexOf and lastIndexOf: positions count from 0, -1 if absent
IndexOf(s, c) ==
    IF \E i \in 1..Len(s) : s[i] = c
    THEN (CHOOSE i \in 1..Len(s) : s[i] = c /\ \A j \in 1..(i - 1) : s[j] # c) - 1
    ELSE -1

LastIndexOf(s, c) ==
    IF \E i \in 1..Len(s) : s[i] = c
    THEN (CHOOSE i \in 1..Len(s) : s[i] = c /\ \A j \in (i + 1)..Len(s) : s[j] # c) - 1
    ELSE -1

\* String.prototype.substring(start, end)
Substring(s, start, end) == SubSeq(s, start + 1, end)

\* JSON.parse accepts the text: an object, white space allowed around its
\* tokens, its members separated by commas
IsJsonObject(s) ==
    LET t == SelectSeq(s, LAMBDA c : c # " ")
        inner == SubSeq(t, 2, Len(t) - 1)
    IN /\ Len(t) >= 2
       /\ t[1] = "{"
       /\ t[Len(t)] = "}"
       /\ \/ inner = <<>>
          \/ /\ Len(inner) % 2 = 1
             /\ \A i \in 1..Len(inner) :
                   inner[i] = (IF i % 2 = 1 THEN "m" ELSE ",")

\* the value JSON.parse returns for an object: its members
JsonValue(s) == SelectSeq(s, LAMBDA c : c = "m")

NoResponse == <<"p", "p">>

\* generateResponse: `content || 'No response generated'`
Generated(content) == IF content = <<>> THEN NoResponse ELSE content

\* generateStructuredResponse, "Find JSON boundaries"
CleanResponse(response) ==
    LET trimmed == Trim(response)
        jsonStart == IndexOf(trimmed, "{")
        jsonEnd == LastIndexOf(trimmed, "}") + 1
    IN IF jsonStart # -1 /\ jsonEnd > jsonStart
       THEN Substring(trimmed, jsonStart, jsonEnd)
       ELSE trimmed

ErrParse == "Failed to parse structured response"

ParseStructuredThrows(response) ==
    LET cleaned == CleanResponse(response)
    IN IF IsJsonObject(cleaned)
       THEN [threw |-> FALSE, parsed |-> TRUE, value |-> JsonValue(cleaned),
             success |-> TRUE, message |-> <<>>, error |-> None]
       ELSE [threw |-> TRUE, parsed |-> FALSE, value |-> <<>>,
             success |-> FALSE, message |-> <<>>, error |-> ErrParse]

\* generateStructuredResponse from the generated text on: clean, parse, fall
\* back to {success: false, message, error}
ParseStructured(response) ==
    LET cleaned == CleanResponse(response)
    IN IF IsJsonObject(cleaned)
       THEN [threw |-> FALSE, parsed |-> TRUE, value |-> JsonValue(cleaned),
             success |-> TRUE, message |-> <<>>, error |-> None]
       ELSE [threw |-> FALSE, parsed |-> FALSE, value |-> <<>>,
             success |-> FALSE,
             message |-> IF cleaned # <<>> THEN cleaned ELSE response,
             error |-> ErrParse]

\* the texts the model generates in the agents' runs: a plan, or prose
GeneratedText(kind) ==
    IF kind = "plan" THEN <<"{", "m", "}">>
    ELSE IF kind = "object" THEN <<"{", "}">>
    ELSE <<"p", "p", "p">>

\* BaseAgent.generateStructuredResponse: never throws. A generation failure
\* and unparseable text both become a fallback object, which has no mainTasks.
GenerateStructuredResponse(includeRAG, includeWeb, env, done) ==
    LET r == GenerateResponse(includeRAG, includeWeb, env, done)
    IN IF ~r.ok
       THEN [value |-> [success |-> FALSE, message |-> "Error generating response",
                        error |-> r.error],
             parsed |-> FALSE, done |-> r.done]
       ELSE IF ParseStructured(GeneratedText(r.text)).parsed
       THEN [value |-> [projectTitle |-> Undefined,
                        mainTasks |-> IF ParseStructured(GeneratedText(r.text)).value = <<>>
                                      THEN Undefined ELSE "tasks"],
             parsed |-> TRUE, done |-> r.done]
       ELSE [value |-> [success |-> FALSE, message |-> r.text,
                        error |-> "Failed to parse structured response"],
             parsed |-> FALSE, done |-> r.done]

\* what execute hands back: whether it returned or threw, and the task, the
\* history and the request counts as it left them
Returned(task, history, done) ==
    [ok |-> TRUE, error |-> Undefined, task |-> task, history |-> history, done |-> done]

\* the catch block of execute: mark the task failed, rethrow
Thrown(task, history, done, error) ==
    [ok |-> FALSE, error |-> error,
     task |-> UpdateTaskStatus(task, "failed", Null, error),
     history |-> history, done |-> done]

\* ContentResearchAgent.execute
ContentResearchExecute(task, history, env) ==
    LET running == UpdateTaskStatus(task, "running", Undefined, Undefined)
        topic == task.parameters.topic
        includeWeb == Default(task.parameters.includeWeb, TRUE)
        createPage == Default(task.parameters.createPage, FALSE)
        ctx == GetContextForQuery(includeWeb, env, NoCalls)
        gen == GenerateResponse(TRUE, includeWeb, env, ctx.done)
        written == [gen.done EXCEPT !.notion = @ + 1]
        done == IF createPage THEN written ELSE gen.done
    IN IF topic = <<>>
       THEN Thrown(running, history, NoCalls, ErrTopic)
       ELSE IF ~ctx.ok
       THEN Thrown(running, history, ctx.done, ctx.error)
       ELSE IF ~gen.ok
       THEN Thrown(running, history, gen.done, gen.error)
       ELSE IF createPage /\ ~env.notion
       THEN Thrown(running, history, written, ErrNotion)
       ELSE Returned(UpdateTaskStatus(running, "completed", "researchResult", Undefined),
                     AddToConversation(history, "assistant",
                                       [kind |-> "Research completed for", text |-> topic],
                                       "researchResult"),
                     done)

\* TaskPlanningAgent.execute, steps 1 and 2: what generateStructuredResponse
\* hands back: its fallback object, an object without mainTasks, or a breakdown
\* with its tasks; None if execute throws before
PlanningResponse(task, env) ==
    LET ctx == GetContextForQuery(FALSE, env, NoCalls)
        plan == GenerateStructuredResponse(TRUE, FALSE, env, ctx.done)
    IN IF task.parameters.projectDescription = <<>> \/ ~ctx.ok THEN None
       ELSE IF ~plan.parsed THEN "fallback"
       ELSE IF plan.value.mainTasks = Undefined THEN "object"
       ELSE "tasks"

TaskPlanningExecuteAcceptsNoTasks(task, history, env) ==
    LET running == UpdateTaskStatus(task, "running", Undefined, Undefined)
        projectDescription == task.parameters.projectDescription
        createDatabase == Default(task.parameters.createDatabase, TRUE)
        ctx == GetContextForQuery(FALSE, env, NoCalls)
        plan == GenerateStructuredResponse(TRUE, FALSE, env, ctx.done)
        written == [plan.done EXCEPT !.notion = @ + 1]
        done == IF createDatabase THEN written ELSE plan.done
    IN IF projectDescription = <<>>
       THEN Thrown(running, history, NoCalls, ErrProject)
       ELSE IF ~ctx.ok
       THEN Thrown(running, history, ctx.done, ctx.error)
       ELSE IF createDatabase /\ ~env.notion
       THEN Thrown(running, history, written, ErrNotion)
       ELSE Returned(UpdateTaskStatus(running, "completed", "taskBreakdown", Undefined),
                     AddToConversation(history, "assistant",
                                       [kind |-> "Project plan created for",
                                        text |-> projectDescription],
                                       "taskBreakdown"),
                     done)

\* TaskPlanningAgent.execute
TaskPlanningExecute(task, history, env) ==
    LET running == UpdateTaskStatus(task, "running", Undefined, Undefined)
        projectDescription == task.parameters.projectDescription
        createDatabase == Default(task.parameters.createDatabase, TRUE)
        ctx == GetContextForQuery(FALSE, env, NoCalls)
        plan == GenerateStructuredResponse(TRUE, FALSE, env, ctx.done)
        written == [plan.done EXCEPT !.notion = @ + 1]
        done == IF createDatabase THEN written ELSE plan.done
    IN IF projectDescription = <<>>
       THEN Thrown(running, history, NoCalls, ErrProject)
       ELSE IF ~ctx.ok
       THEN Thrown(running, history, ctx.done, ctx.error)
       ELSE IF PlanningResponse(task, env) # "tasks"
       THEN Thrown(running, history, plan.done, ErrMainTasks)
       ELSE IF createDatabase /\ ~env.notion
       THEN Thrown(running, history, written, ErrNotion)
       ELSE Returned(UpdateTaskStatus(running, "completed", "taskBreakdown", Undefined),
                     AddToConversation(history, "assistant",
                                       [kind |-> "Project plan created for",
                                        text |-> projectDescription],
                                       "taskBreakdown"),
                     done)

\* BaseAgent.execute, dispatched on the class of the registered instance
Execute(agent, task, history, env) ==
    IF agent = "content-research"
    THEN ContentResearchExecute(task, history, env)
    ELSE TaskPlanningExecute(task, history, env)

(***************************************************************************)
(* Inputs: chat messages.                                                  *)
(***************************************************************************)
Words ==
    {<<"R","e","s","e","a","r","c","h">>,
     <<"P","L","A","N">>,
     <<"F","i","n","d">>,
     <<"h","e","l","l","o">>,
     <<"e","x","p","l","a","n","a","t","i","o","n">>,
     <<"S","h","o","w">>,
     <<"m","e">>,
     <<"t","r","e","n","d","s">>,
     <<"t","a","s","k","s">>,
     <<"i","n","f","o","r","m","a","t","i","o","n">>,
     <<"I","m","p","r","o","v","e">>,
     <<"d","a","t","a","b","a","s","e">>,
     <<"p","r","o","j","e","c","t">>,
     <<"l","e","a","r","n">>,
     <<"a","b","o","u","t">>,
     <<"t","i","m","e","l","i","n","e">>}

MsgResearchQuantum ==
    <<"R","e","s","e","a","r","c","h"," ","q","u","a","n","t","u","m"," ","c","o","m","p","u","t","i","n","g">>

MsgPlanTimeline ==
    <<"P","l","a","n"," ","a"," ","p","r","o","j","e","c","t"," ","t","i","m","e","l","i","n","e">>

MsgEmpty ==
    <<>>

MsgPlanResearch ==
    <<"P","l","a","n"," ","t","h","e"," ","r","e","s","e","a","r","c","h"," ","p","r","o","j","e","c","t">>

MsgFindPython ==
    <<"F","i","n","d"," ","a","l","l"," ","p","a","g","e","s"," ","a","b","o","u","t"," ","P","y","t","h","o","n">>

MsgHello ==
    <<"H","e","l","l","o"," ","t","h","e","r","e">>

MsgListTasks ==
    <<"L","i","s","t"," ","m","y"," ","t","a","s","k","s">>

\* every message of at most MaxWords words, joined by single spaces
GeneratedMessages ==
    {JoinWords(ws) : ws \in UNION {[1..n -> Words] : n \in 0..MaxWords}}

ExampleMessages ==
    {MsgResearchQuantum, MsgPlanTimeline, MsgEmpty, MsgPlanResearch,
     MsgFindPython, MsgHello, MsgListTasks}

Messages == GeneratedMessages \cup ExampleMessages

(***************************************************************************)
(* Routing as a specification of its own: classify one message at a time.  *)
(***************************************************************************)
NoBreakdown ==
    [projectTitle |-> Undefined, mainTasks |-> <<>>, timeline |-> Undefined,
     dependencies |-> Undefined, resources |-> Undefined]

NoCall ==
    [op |-> None, outcome |-> None, error |-> None, stage |-> None,
     conv |-> 0, supplied |-> 0, message |-> <<>>, agentType |-> None,
     task |-> 0, agentTask |-> 0,
     preferred |-> None, registered |-> {},
     query |-> <<>>, limit |-> 0, includeWeb |-> FALSE,
     results |-> <<>>, webResults |-> <<>>, context |-> <<>>,
     embeds |-> 0, requests |-> 0, webFailed |-> FALSE,
     after |-> None, dropped |-> 0,
     items |-> <<>>, rerun |-> FALSE, served |-> FALSE,
     text |-> <<>>, llmFailed |-> FALSE, planned |-> None,
     request |-> <<>>, useIndex |-> FALSE,
     userAt |-> 0, reregistered |-> FALSE, created |-> FALSE,
     model |-> NoBreakdown, breakdown |-> NoBreakdown, repairs |-> 0,
     structured |-> [threw |-> FALSE, parsed |-> FALSE, value |-> <<>>,
                     success |-> FALSE, message |-> <<>>, error |-> None]]

InitIdle ==
    /\ agents = {}
    /\ activeContexts = {}
    /\ previousMessages = <<>>
    /\ tasks = <<>>
    /\ collection = "null"
    /\ store = <<>>
    /\ pages = <<>>
    /\ calls = [ops |-> 0, exec |-> 0, rag |-> 0, web |-> 0, llm |-> 0, notion |-> 0]
    /\ last = NoCall
    /\ indexed = [done |-> FALSE, pages |-> <<>>, items |-> <<>>]
    /\ routed = [message |-> <<>>, agent |-> None]
    /\ appended = <<>>
    /\ pending = <<>>
    /\ sessionData = <<>>
    /\ agentManager = "manager"

RouteIntent(message) ==
    /\ routed.agent = None
    /\ routed' = [message |-> message, agent |-> DetermineBestAgent(message)]
    /\ UNCHANGED <<orchestratorVars, indexVars, last, appended, pending, sessionData,
                   agentManager>>

InitRoute == InitIdle

NextRoute == \E message \in Messages : RouteIntent(message)

SpecRoute == InitRoute /\ [][NextRoute]_vars

(***************************************************************************)
(* AgentManager: state and operations.                                     *)
(* Context objects are numbered in creation order (uuidv4 never repeats);  *)
(* previousMessages[c] is the history of context c whether or not c is     *)
(* still registered. Tasks are numbered in creation order as well.         *)
(***************************************************************************)
RegisteredByInitialize == {"content-research", "task-planning"}

LookupFallsBack(agentType) ==
    IF agentType \in agents THEN agentType
    ELSE IF "content-research" \in agents THEN "content-research"
    ELSE None

\* this.agents.get(agentType): the registered instance, None when absent
Lookup(agentType) ==
    IF agentType \in agents THEN agentType ELSE None

ChatPushUserDropped(history, message) ==
    history

\* AgentManager.chat, "Add user message to context": a bare push
ChatPushUser(history, message) ==
    Append(history, Entry("user", [kind |-> "message", text |-> message], Undefined))

ChatPushAssistantOverwrites(history, response, agentType) ==
    [history EXCEPT ![Len(history)] = Entry("assistant", response, agentType)]

\* AgentManager.chat, "Add assistant response to context": a bare push
ChatPushAssistant(history, response, agentType) ==
    Append(history, Entry("assistant", response, agentType))

\* the messages sent to chat
ChatMessages == {MsgHello, MsgResearchQuantum, MsgPlanTimeline, MsgFindPython}

\* what chat computes from the text of a message alone, computed once per
\* message: the routed agent, the two branch conditions, topic and project
OfMessage ==
    [message \in ChatMessages |->
        LET lower == ToLowerCase(message)
        IN [routed |-> DetermineBestAgent(message),
            asksResearch |->
                \/ Includes(lower, <<"r","e","s","e","a","r","c","h">>)
                \/ Includes(lower, <<"c","r","e","a","t","e"," ","p","a","g","e">>),
            asksPlan |->
                \/ Includes(lower, <<"p","l","a","n">>)
                \/ Includes(lower, <<"p","r","o","j","e","c","t">>),
            topic |-> ExtractTopicFromMessage(message),
            project |-> ExtractProjectFromMessage(message)]]

\* AgentManager.chat: which branch generates the response
ChatPath(agentType, message) ==
    IF agentType = "content-research"
    THEN IF OfMessage[message].asksResearch THEN "research" ELSE "plain-web"
    ELSE IF agentType = "task-planning"
    THEN IF OfMessage[message].asksPlan THEN "plan" ELSE "plain"
    ELSE "plain"

\* the task object chat constructs for the turn
ChatTask(agentType) ==
    [type |-> agentType, description |-> "Chat",
     parameters |-> Parameters(<<>>, <<>>, Undefined, Undefined, Undefined),
     status |-> "running", result |-> Undefined, error |-> Undefined]

\* AgentManager.chat between the lookup and the assistant push: the agent's work
ChatWork(agent, agentType, message, history, env) ==
    LET path == ChatPath(agentType, message)
        topic == OfMessage[message].topic
        project == OfMessage[message].project
        research == Execute(agent,
                        CreateTask(agent, "Research topic",
                                   Parameters(topic, <<>>, "true", "false", Undefined)),
                        history, env)
        plan == Execute(agent,
                        CreateTask(agent, "Plan project",
                                   Parameters(<<>>, project, Undefined, Undefined, Undefined)),
                        history, env)
        gen == GenerateResponse(TRUE, path = "plain-web", env, NoCalls)
    IN IF path = "research"
       THEN [ok |-> research.ok, error |-> research.error, history |-> research.history,
             done |-> research.done, made |-> <<research.task>>,
             response |-> [kind |-> "I've researched", text |-> topic]]
       ELSE IF path = "plan"
       THEN [ok |-> plan.ok, error |-> plan.error, history |-> plan.history,
             done |-> plan.done, made |-> <<plan.task>>,
             response |-> [kind |-> "I've created a project plan", text |-> project]]
       ELSE [ok |-> gen.ok, error |-> gen.error, history |-> history,
             done |-> gen.done, made |-> <<>>,
             response |-> [kind |-> IF gen.ok THEN gen.text ELSE Undefined, text |-> <<>>]]

\* the call reached the text-generation provider, and the provider failed
ProviderFailed(env, done) == env.llm = "throws" /\ done.llm > 0

Count(done, ops, exec) ==
    [ops |-> calls.ops + ops, exec |-> calls.exec + exec,
     rag |-> calls.rag + done.rag, web |-> calls.web + done.web,
     llm |-> calls.llm + done.llm, notion |-> calls.notion + done.notion]

\* the default of createContext's sessionData parameter
NoData == "{}"

\* the sessionData of the context object chat works on: a new object has {}
SetData(c) ==
    IF c \in 1..Len(sessionData) THEN sessionData ELSE Append(sessionData, NoData)

\* Map.prototype.set on the history table
SetHistory(c, history) ==
    IF c \in 1..Len(previousMessages)
    THEN [previousMessages EXCEPT ![c] = history]
    ELSE Append(previousMessages, history)

\* AgentManager.initialize: the knowledge index first, then the two agents
Initialize(storeUp) ==
    /\ IF storeUp
       THEN /\ collection' = "handle"
            /\ agents' = agents \cup RegisteredByInitialize
       ELSE UNCHANGED <<collection, agents>>
    /\ UNCHANGED <<activeContexts, previousMessages, tasks, calls, store, pages,
                   indexed, last, routed, agentManager, appended, pending, sessionData>>

\* AgentManager.createContext
CreateContextWith(data) ==
    /\ previousMessages' = Append(previousMessages, <<>>)
    /\ sessionData' = Append(sessionData, data)
    /\ activeContexts' = activeContexts \cup {Len(previousMessages) + 1}
    /\ UNCHANGED <<agents, tasks, indexVars, routed, agentManager, appended, pending>>

\* createContext(): sessionData defaults to {}
CreateContext ==
    /\ Len(previousMessages) < MaxContexts
    /\ CreateContextWith(NoData)
    /\ UNCHANGED <<calls, last>>

\* a caller constructs a task object (status pending), as the tool gateway does
NewTask(agentType, parameters) ==
    /\ Cardinality({t \in 1..Len(tasks) : tasks[t].description = "caller"}) < MaxCallerTasks
    /\ tasks' = Append(tasks, CreateTask(agentType, "caller", parameters))
    /\ UNCHANGED <<agents, activeContexts, previousMessages, calls, indexVars,
                   last, routed, agentManager, appended, pending, sessionData>>

\* AgentManager.chat(message, conversationId, preferredAgent); conversationId 0
\* and preferredAgent None stand for an omitted argument
Chat(message, conversationId, preferredAgent, env) ==
    LET known == conversationId \in activeContexts
        c == IF known THEN conversationId ELSE Len(previousMessages) + 1
        entered == ChatPushUser(IF known THEN previousMessages[c] ELSE <<>>, message)
    IN /\ known \/ Len(previousMessages) < MaxContexts
       /\ activeContexts' = activeContexts \cup {c}
       /\ \E agentType \in {IF preferredAgent # None THEN preferredAgent
                             ELSE OfMessage[message].routed} :
             LET agent == Lookup(agentType)
                 call == [NoCall EXCEPT !.op = "chat", !.conv = c,
                                        !.supplied = conversationId,
                                        !.message = message, !.agentType = agentType,
                                        !.preferred = preferredAgent,
                                        !.registered = agents]
             IN IF agent = None
                THEN /\ previousMessages' = SetHistory(c, entered)
                     /\ UNCHANGED tasks
                     /\ calls' = Count(NoCalls, 1, 0)
                     /\ last' = [call EXCEPT !.outcome = "error", !.stage = "lookup",
                                             !.error = "Agent not available"]
                ELSE \E work \in {ChatWork(agent, agentType, message, entered, env)} :
                        /\ tasks' = tasks \o <<ChatTask(agentType)>> \o work.made
                        /\ calls' = Count(work.done, 1, 1)
                        /\ IF work.ok
                           THEN /\ previousMessages' =
                                       SetHistory(c, ChatPushAssistant(work.history,
                                                                       work.response,
                                                                       agentType))
                                /\ last' = [call EXCEPT !.outcome = "ok",
                                              !.llmFailed = ProviderFailed(env, work.done),
                                              !.task = Len(tasks) + 1,
                                              !.agentTask = IF work.made = <<>> THEN 0
                                                            ELSE Len(tasks) + 2]
                           ELSE /\ previousMessages' = SetHistory(c, work.history)
                                /\ last' = [call EXCEPT !.outcome = "error",
                                              !.stage = "agent",
                                              !.error = work.error,
                                              !.llmFailed = ProviderFailed(env, work.done),
                                              !.task = Len(tasks) + 1,
                                              !.agentTask = IF work.made = <<>> THEN 0
                                                            ELSE Len(tasks) + 2]
       /\ sessionData' = SetData(c)
       /\ UNCHANGED <<agents, indexVars, routed, agentManager, appended, pending>>

\* AgentManager.executeTask(agentType, task, context) on a task and a context
\* object the caller holds
ExecuteTask(agentType, t, c, env) ==
    LET agent == Lookup(agentType)
        run == Execute(agent, tasks[t], previousMessages[c], env)
        call == [NoCall EXCEPT !.op = "executeTask", !.conv = c, !.supplied = c,
                               !.agentType = agentType, !.task = t,
                               !.registered = agents,
                               !.planned = IF agent = "task-planning"
                                           THEN PlanningResponse(tasks[t], env)
                                           ELSE None]
    IN /\ t \in 1..Len(tasks)
       /\ tasks[t].description = "caller"
       /\ c \in 1..Len(previousMessages)
       /\ IF agent = None
          THEN /\ UNCHANGED <<tasks, previousMessages, activeContexts>>
               /\ calls' = Count(NoCalls, 1, 0)
               /\ last' = [call EXCEPT !.outcome = "error", !.stage = "lookup",
                                       !.error = "Agent not found"]
          ELSE /\ tasks' = [tasks EXCEPT ![t] = run.task]
               /\ previousMessages' = [previousMessages EXCEPT ![c] = run.history]
               /\ calls' = Count(run.done, 1, 1)
               /\ IF run.ok
                  THEN /\ activeContexts' = activeContexts \cup {c}
                       /\ last' = [call EXCEPT !.outcome = "ok",
                                               !.llmFailed = ProviderFailed(env, run.done)]
                  ELSE /\ UNCHANGED activeContexts
                       /\ last' = [call EXCEPT !.outcome = "error", !.stage = "agent",
                                               !.error = run.error,
                                               !.llmFailed = ProviderFailed(env, run.done)]
       /\ UNCHANGED <<agents, indexVars, routed, agentManager, appended, pending, sessionData>>

\* the tasks a caller constructs
CallerTasks ==
    {<<"content-research", Parameters(<<"A","I">>, <<>>, "true", "true", Undefined)>>,
     <<"task-planning", Parameters(<<>>, <<"a","p","p">>, Undefined, Undefined, "true")>>}

PreferredAgents == {None, "analytics"}

\* the agent types passed to executeTask
ExecutedTypes == {"content-research", "task-planning", "analytics"}

Init == InitIdle

Next ==
    \/ \E storeUp \in BOOLEAN : Initialize(storeUp)
    \/ CreateContext
    \/ \E ct \in CallerTasks : NewTask(ct[1], ct[2])
    \/ \E message \in ChatMessages, preferredAgent \in PreferredAgents, env \in Envs,
          conversationId \in {0} \cup (1..Len(previousMessages)) :
            /\ calls.ops < MaxCalls
            /\ Chat(message, conversationId, preferredAgent, env)
    \/ \E agentType \in ExecutedTypes,
          t \in 1..Len(tasks), c \in 1..Len(previousMessages), env \in Envs :
            /\ calls.ops < MaxCalls
            /\ ExecuteTask(agentType, t, c, env)

Spec == Init /\ [][Next]_vars

(***************************************************************************)
(* The task lifecycle: a caller's tasks submitted to executeTask, also     *)
(* more than once.                                                         *)
(***************************************************************************)
InitTask == InitIdle

NextTask ==
    \/ Initialize(TRUE)
    \/ CreateContext
    \/ \E ct \in CallerTasks : NewTask(ct[1], ct[2])
    \/ \E agentType \in ExecutedTypes,
          t \in 1..Len(tasks), c \in 1..Len(previousMessages), env \in Envs :
            /\ calls.ops < MaxExecs
            /\ ExecuteTask(agentType, t, c, env)

SpecTask == InitTask /\ [][NextTask]_vars

(***************************************************************************)
(* One long conversation: every turn continues the conversation the first  *)
(* turn created, on an initialized manager.                                *)
(***************************************************************************)
LongTurns ==
    {<<MsgHello, [ragFailAt |-> 0, llm |-> "prose", notion |-> TRUE]>>,
     <<MsgHello, [ragFailAt |-> 0, llm |-> "throws", notion |-> TRUE]>>,
     <<MsgResearchQuantum, [ragFailAt |-> 0, llm |-> "prose", notion |-> TRUE]>>}

InitLong == InitIdle

NextLong ==
    \/ /\ agents = {}
       /\ Initialize(TRUE)
    \/ \E turn \in LongTurns :
          /\ agents # {}
          /\ calls.ops < MaxTurns
          /\ Chat(turn[1], IF activeContexts = {} THEN 0 ELSE 1, None, turn[2])

SpecLong == InitLong /\ [][NextLong]_vars

(***************************************************************************)
(* addToConversation on one context: some history of at most HistoryCap    *)
(* entries is in place, then entries are appended one call at a time.      *)
(***************************************************************************)
HistoryTexts == {<<"a">>, <<"b">>}

\* a history of n entries as n calls of addToConversation leave it
InitialHistory(n) ==
    [i \in 1..n |->
        Entry(IF i % 2 = 1 THEN "user" ELSE "assistant",
              [kind |-> "message", text |-> IF i % 3 = 0 THEN <<"a">> ELSE <<"b">>],
              Undefined)]

InitHist ==
    \E n \in 0..HistoryCap :
        /\ agents = {}
        /\ activeContexts = {1}
        /\ previousMessages = <<InitialHistory(n)>>
        /\ tasks = <<>>
        /\ collection = "null"
        /\ store = <<>>
        /\ pages = <<>>
        /\ calls = [ops |-> 0, exec |-> 0, rag |-> 0, web |-> 0, llm |-> 0, notion |-> 0]
        /\ last = NoCall
        /\ indexed = [done |-> FALSE, pages |-> <<>>, items |-> <<>>]
        /\ routed = [message |-> <<>>, agent |-> None]
        /\ appended = InitialHistory(n)
        /\ pending = <<>>
        /\ sessionData = <<NoData>>
        /\ agentManager = "manager"

\* one call addToConversation(context, role, content) on context 1
AddStep(role, text) ==
    /\ calls.ops < MaxAppends
    /\ previousMessages' =
           [previousMessages EXCEPT ![1] =
               AddToConversation(@, role, [kind |-> "message", text |-> text], Undefined)]
    /\ appended' = Append(appended,
                          Entry(role, [kind |-> "message", text |-> text], Undefined))
    /\ calls' = [calls EXCEPT !.ops = @ + 1]
    /\ last' = [NoCall EXCEPT !.op = "addToConversation", !.outcome = "ok", !.conv = 1]
    /\ UNCHANGED <<agents, activeContexts, tasks, indexVars, routed, agentManager, pending,
                   sessionData>>

NextHist ==
    \E role \in {"user", "assistant"}, text \in HistoryTexts : AddStep(role, text)

SpecHist == InitHist /\ [][NextHist]_vars

(***************************************************************************)
(* RAGSystem: the knowledge index.                                         *)
(* Text is a sequence of tokens here (a title, paragraph texts); the       *)
(* separators the code inserts between them carry no information.  The     *)
(* vector store's collection is the sequence of its entries, so that two   *)
(* entries for one item can be told from one.                              *)
(***************************************************************************)
PageIds == {"p1", "p2"}

\* the order in which searchPages lists the pages
PageOrder == <<"p1", "p2">>

Paragraph(text) == [type |-> "paragraph", text |-> text]
Heading(text) == [type |-> "heading_1", text |-> text]

\* the block lists a page can hold
BlockLists ==
    {<<Paragraph("alpha")>>,
     <<Paragraph("beta"), Heading("gamma"), Paragraph("")>>,
     <<Heading("gamma")>>}

PageTitle == [p \in PageIds |-> IF p = "p1" THEN "T1" ELSE "T2"]

\* the embedding provider returns vectors of length 1: these are the vectors
\* of the model, in units of 1/5
UnitVectors == << <<5, 0>>, <<4, 3>>, <<3, 4>>, <<0, 5>> >>

TokenCode(token) ==
    IF token = "alpha" THEN 0
    ELSE IF token = "beta" THEN 1
    ELSE IF token = "gamma" THEN 2
    ELSE IF token = "T1" THEN 3
    ELSE 1

RECURSIVE SumCodes(_)
SumCodes(text) ==
    IF text = <<>> THEN 0 ELSE TokenCode(Head(text)) + SumCodes(Tail(text))

\* the embedding provider: a fixed function of the whole text
Embed(text) == UnitVectors[(SumCodes(text) % Len(UnitVectors)) + 1]

\* indexNotionWorkspace, "Extract text content from blocks": the texts of the
\* paragraph blocks, empty ones filtered out
RECURSIVE TextContent(_)
TextContent(blocks) ==
    IF blocks = <<>> THEN <<>>
    ELSE (IF Head(blocks).type = "paragraph" /\ Head(blocks).text # ""
          THEN <<Head(blocks).text>> ELSE <<>>) \o TextContent(Tail(blocks))

\* indexNotionWorkspace: `${page.title}\n\n${textContent}`
FullContent(page) == <<page.title>> \o TextContent(page.blocks)

EntryIdFresh(p) == "doc_" \o ToString(Len(store))

\* indexNotionWorkspace: the id an item is stored under, `notion_${page.id}`
EntryId(p) == "notion_" \o p

\* the entry indexNotionWorkspace builds for page p
PageEntry(p) ==
    [id |-> EntryId(p),
     document |-> FullContent(pages[p]),
     embedding |-> Embed(FullContent(pages[p])),
     metadata |-> [pageId |-> p, title |-> pages[p].title,
                   lastEdited |-> pages[p].lastEdited, source |-> "notion"]]

\* indexNotionWorkspace, the loop over the pages: an item whose fetch or
\* embedding throws, whose text is empty or whose embedding is empty
\* contributes nothing
BatchAborts(order, item) ==
    LET Kept(p) == item[p] = "ok" /\ TextContent(pages[p].blocks) # <<>>
        kept == SelectSeq(order, Kept)
    IN IF \E i \in 1..Len(order) : item[order[i]] \in {"fetchThrows", "embedThrows"}
       THEN <<>>
       ELSE [i \in 1..Len(kept) |-> PageEntry(kept[i])]

RECURSIVE Batch(_, _)
Batch(order, item) ==
    IF order = <<>> THEN <<>>
    ELSE LET p == Head(order)
         IN (IF /\ item[p] = "ok"
                /\ TextContent(pages[p].blocks) # <<>>
             THEN <<PageEntry(p)>> ELSE <<>>) \o Batch(Tail(order), item)

\* collection.add of the vector store: an entry whose id the collection
\* already holds is ignored, the others are appended
RECURSIVE StoreAdd(_, _)
StoreAdd(entries, batch) ==
    IF batch = <<>> THEN entries
    ELSE StoreAdd(IF \E i \in 1..Len(entries) : entries[i].id = Head(batch).id
                  THEN entries
                  ELSE Append(entries, Head(batch)),
                  Tail(batch))

\* what the services do during one index run: search lists the pages or
\* throws; per page the fetch throws, the embedding throws or comes back
\* empty, or all is well; add reaches the vector store or throws
IndexEnvs ==
    {[search |-> TRUE, item |-> [p \in PageIds |-> "ok"], add |-> TRUE],
     [search |-> TRUE, item |-> [p \in PageIds |-> IF p = "p1" THEN "fetchThrows" ELSE "ok"],
      add |-> TRUE],
     [search |-> TRUE, item |-> [p \in PageIds |-> IF p = "p2" THEN "embedThrows" ELSE "ok"],
      add |-> TRUE],
     [search |-> TRUE, item |-> [p \in PageIds |-> IF p = "p1" THEN "embedEmpty" ELSE "ok"],
      add |-> TRUE],
     [search |-> FALSE, item |-> [p \in PageIds |-> "ok"], add |-> TRUE],
     [search |-> TRUE, item |-> [p \in PageIds |-> "ok"], add |-> FALSE]}

\* RAGSystem.initialize, the vector store answering (when it does not, the
\* call throws and nothing changes)
RagInitialize ==
    /\ collection # "handle"
    /\ collection' = "handle"
    /\ UNCHANGED <<orchestratorVars, store, pages, indexed, last, routed, agentManager, appended, pending, sessionData>>

\* RAGSystem.indexNotionWorkspace (indexAll)
IndexNotionWorkspace(env) ==
    LET batch == Batch(PageOrder, env.item)
        call == [NoCall EXCEPT !.op = "indexAll", !.items = env.item,
                               !.rerun = /\ indexed.done
                                        /\ indexed.pages = pages
                                        /\ indexed.items = env.item,
                               !.served = env.search /\ env.add]
        failed(error) ==
            /\ last' = [call EXCEPT !.outcome = "error", !.error = error]
            /\ UNCHANGED <<store, indexed>>
    IN /\ IF ~env.search
          THEN failed(ErrNotion)
          ELSE IF batch = <<>>
          THEN /\ last' = [call EXCEPT !.outcome = "ok"]
               /\ indexed' = [done |-> TRUE, pages |-> pages, items |-> env.item]
               /\ UNCHANGED store
          ELSE IF collection = "null"
          THEN failed("Cannot read properties of null (reading 'add')")
          ELSE IF ~env.add \/ collection # "handle"
          THEN failed("Vector store unreachable")
          ELSE /\ store' = StoreAdd(store, batch)
               /\ indexed' = [done |-> TRUE, pages |-> pages, items |-> env.item]
               /\ last' = [call EXCEPT !.outcome = "ok"]
       /\ calls' = [calls EXCEPT !.ops = @ + 1]
       /\ UNCHANGED <<agents, activeContexts, previousMessages, tasks, collection,
                      pages, routed, agentManager, appended, pending, sessionData>>

\* the workspace's owner rewrites a page in the Content Store
EditPage(p, blocks) ==
    /\ pages[p].blocks # blocks
    /\ pages' = [pages EXCEPT ![p].blocks = blocks, ![p].lastEdited = @ + 1]
    /\ calls' = [calls EXCEPT !.ops = @ + 1]
    /\ last' = [NoCall EXCEPT !.op = "editPage"]
    /\ UNCHANGED <<agents, activeContexts, previousMessages, tasks, collection,
                   store, indexed, routed, agentManager, appended, pending, sessionData>>

InitIndex ==
    \E initial \in [PageIds -> BlockLists] :
        /\ agents = {}
        /\ activeContexts = {}
        /\ previousMessages = <<>>
        /\ tasks = <<>>
        /\ collection = "null"
        /\ store = <<>>
        /\ pages = [p \in PageIds |->
                       [title |-> PageTitle[p], blocks |-> initial[p], lastEdited |-> 0]]
        /\ calls = [ops |-> 0, exec |-> 0, rag |-> 0, web |-> 0, llm |-> 0, notion |-> 0]
        /\ last = NoCall
        /\ indexed = [done |-> FALSE, pages |-> <<>>, items |-> <<>>]
        /\ routed = [message |-> <<>>, agent |-> None]
        /\ appended = <<>>
        /\ pending = <<>>
        /\ sessionData = <<>>
        /\ agentManager = "manager"

NextIndex ==
    \/ RagInitialize
    \/ \E env \in IndexEnvs :
          /\ calls.ops < MaxIndexOps
          /\ IndexNotionWorkspace(env)
    \/ \E p \in PageIds, blocks \in BlockLists :
          /\ calls.ops < MaxIndexOps
          /\ EditPage(p, blocks)

SpecIndex == InitIndex /\ [][NextIndex]_vars

(***************************************************************************)
(* RAGSystem: search, web search, context, addDocument, clearCollection.   *)
(* Numbers that the program computes with fractions (distances, scores)    *)
(* are kept in units of 1/One.                                             *)
(***************************************************************************)
SquaredLength(v) == v[1] * v[1] + v[2] * v[2]

\* the number 1 in the units of distances and scores
One == SquaredLength(UnitVectors[1])

\* the distance of the vector store: the collection is created without a
\* metric, so it is the store's default, the squared Euclidean distance
Distance(a, b) == SquaredLength(<<a[1] - b[1], a[2] - b[2]>>)

\* the indices of the n entries nearest to the embedding, nearest first
RECURSIVE Nearest(_, _, _, _)
Nearest(entries, candidates, embedding, n) ==
    IF n = 0 \/ candidates = {} THEN <<>>
    ELSE LET D(i) == Distance(entries[i].embedding, embedding)
             best == CHOOSE i \in candidates :
                        \A j \in candidates : D(i) < D(j) \/ (D(i) = D(j) /\ i <= j)
         IN <<best>> \o Nearest(entries, candidates \ {best}, embedding, n - 1)

\* collection.query of the vector store: the nResults nearest entries
CollectionQuery(entries, embedding, nResults) ==
    LET order == Nearest(entries, 1..Len(entries), embedding, nResults)
    IN [k \in 1..Len(order) |->
           [id |-> entries[order[k]].id,
            document |-> entries[order[k]].document,
            metadata |-> entries[order[k]].metadata,
            distance |-> Distance(entries[order[k]].embedding, embedding)]]

\* searchKnowledge, "Convert distance to similarity score"
Score(distance) == One - distance

\* searchKnowledge: a hit without id, content or metadata is left out
SearchResultSkips(hit) ==
    hit.id = "" \/ hit.document = <<>>

\* searchKnowledge: the result built from one hit of the vector store
SearchResult(hit) ==
    [id |-> hit.id, content |-> hit.document, metadata |-> hit.metadata,
     score |-> Score(hit.distance),
     source |-> IF hit.metadata.source \in {"notion", "web", "document"}
                THEN hit.metadata.source ELSE "document"]

ErrNotInitialized == "RAG system not initialized"
ErrEmbed == "Embedding request failed"
ErrStore == "Vector store request failed"

SearchKnowledgeUnguarded(query, limit, env) ==
    IF ~env.embed
    THEN [ok |-> FALSE, error |-> ErrEmbed, results |-> <<>>, embeds |-> 1, requests |-> 0]
    ELSE [ok |-> FALSE, error |-> "Cannot read properties of null (reading 'query')",
          results |-> <<>>, embeds |-> 1, requests |-> 0]

\* RAGSystem.searchKnowledge(query, limit)
SearchKnowledge(query, limit, env) ==
    IF collection = "null"
    THEN [ok |-> FALSE, error |-> ErrNotInitialized, results |-> <<>>,
          embeds |-> 0, requests |-> 0]
    ELSE IF ~env.embed
    THEN [ok |-> FALSE, error |-> ErrEmbed, results |-> <<>>, embeds |-> 1, requests |-> 0]
    ELSE IF ~env.query \/ collection # "handle"
    THEN [ok |-> FALSE, error |-> ErrStore, results |-> <<>>, embeds |-> 1, requests |-> 1]
    ELSE LET hits == CollectionQuery(store, Embed(query), limit)
             kept == SelectSeq(hits, LAMBDA hit : ~SearchResultSkips(hit))
         IN [ok |-> TRUE, error |-> None,
             results |-> [k \in 1..Len(kept) |-> SearchResult(kept[k])],
             embeds |-> 1, requests |-> 1]

WebSearchPropagates(limit, web) ==
    IF ~web.ok THEN [ok |-> FALSE, results |-> <<>>]
    ELSE [ok |-> TRUE, results |-> <<>>]

\* RAGSystem.webSearch(query, limit): the first `limit` hits of the page, those
\* with a title and a snippet; [] when the provider throws
WebSearch(limit, web) ==
    IF ~web.ok THEN [ok |-> TRUE, results |-> <<>>]
    ELSE LET first == FirstN(web.hits, limit)
             kept == SelectSeq(first, LAMBDA h : h.title # "" /\ h.snippet # "")
         IN [ok |-> TRUE,
             results |-> [k \in 1..Len(kept) |->
                            [id |-> "web",
                             content |-> <<kept[k].title, kept[k].snippet>>,
                             metadata |-> [title |-> kept[k].title, source |-> "web"],
                             score |-> (4 * One) \div 5,
                             source |-> "web"]]]

Line(kind, n, text) == [kind |-> kind, n |-> n, text |-> text]

\* getContextForQuery, "Build context string": the lines of the string
ContextString(notionResults, webResults) ==
    <<Line("Based on the following information:", 0, <<>>)>>
    \o (IF Len(notionResults) > 0
        THEN <<Line("From your Notion workspace:", 0, <<>>)>>
             \o [i \in 1..Len(notionResults) |->
                   Line("notion", i, FirstN(notionResults[i].content, IndexedBudget))]
        ELSE <<>>)
    \o (IF Len(webResults) > 0
        THEN <<Line("From web search:", 0, <<>>)>>
             \o [i \in 1..Len(webResults) |->
                   Line("web", i, FirstN(webResults[i].content, WebBudget))]
        ELSE <<>>)

\* getContextForQuery(query, includeWeb): the index always (limit defaulted),
\* the web only if includeWeb; a search failure is thrown on, before the web
\* search
ContextFor(query, includeWeb, env) ==
    LET search == SearchKnowledge(query, DefaultLimit, env)
        web == IF includeWeb THEN WebSearch(WebLimit, env.web)
               ELSE [ok |-> TRUE, results |-> <<>>]
    IN IF ~search.ok
       THEN [ok |-> FALSE, error |-> search.error, notionResults |-> <<>>,
             webResults |-> <<>>, context |-> <<>>,
             embeds |-> search.embeds, requests |-> search.requests, web |-> 0]
       ELSE IF ~web.ok
       THEN [ok |-> FALSE, error |-> "Web search request failed",
             notionResults |-> <<>>, webResults |-> <<>>, context |-> <<>>,
             embeds |-> search.embeds, requests |-> search.requests, web |-> 1]
       ELSE [ok |-> TRUE, error |-> None, notionResults |-> search.results,
             webResults |-> web.results,
             context |-> ContextString(search.results, web.results),
             embeds |-> search.embeds, requests |-> search.requests,
             web |-> IF includeWeb THEN 1 ELSE 0]

\* the texts searched for and added
Queries == {<<"alpha">>, <<"beta">>, <<"gamma", "T1">>}

Limits == {1, DefaultLimit}

\* the page of hits the Web Search Provider answers with, or its failure
WebAnswers ==
    {[ok |-> FALSE, hits |-> <<>>],
     [ok |-> TRUE, hits |-> <<>>],
     [ok |-> TRUE, hits |-> <<[title |-> "W1", snippet |-> "s1"],
                             [title |-> "W2", snippet |-> ""]>>]}

\* the outcomes of the requests of a search
SearchEnvs ==
    {[embed |-> TRUE, query |-> TRUE, web |-> w] : w \in WebAnswers}
    \cup {[embed |-> FALSE, query |-> TRUE, web |-> [ok |-> TRUE, hits |-> <<>>]],
          [embed |-> TRUE, query |-> FALSE, web |-> [ok |-> TRUE, hits |-> <<>>]]}

\* the outcomes of the requests of addDocument
AddEnvs == {[embed |-> TRUE, add |-> TRUE], [embed |-> FALSE, add |-> TRUE],
            [embed |-> TRUE, add |-> FALSE]}

\* the outcomes of the two requests of clearCollection
ClearEnvs == {[delete |-> TRUE, create |-> TRUE], [delete |-> FALSE, create |-> TRUE],
              [delete |-> TRUE, create |-> FALSE]}

\* a call of searchKnowledge(query, limit)
Search(query, limit, env) ==
    LET call == [NoCall EXCEPT !.op = "search", !.query = query, !.limit = limit,
                               !.after = last.op \o ":" \o last.outcome,
                               !.dropped = last.dropped]
    IN /\ \E r \in {SearchKnowledge(query, limit, env)} :
             last' = [call EXCEPT !.outcome = IF r.ok THEN "ok" ELSE "error",
                                  !.error = r.error, !.results = r.results,
                                  !.embeds = r.embeds, !.requests = r.requests]
       /\ calls' = [calls EXCEPT !.ops = @ + 1, !.rag = @ + 1]
       /\ UNCHANGED <<agents, activeContexts, previousMessages, tasks, indexVars,
                      routed, agentManager, appended, pending, sessionData>>

\* a call of getContextForQuery(query, includeWeb)
GetContext(query, includeWeb, env) ==
    LET call == [NoCall EXCEPT !.op = "getContext", !.query = query,
                               !.limit = DefaultLimit, !.includeWeb = includeWeb,
                               !.webFailed = includeWeb /\ ~env.web.ok]
    IN /\ \E r \in {ContextFor(query, includeWeb, env)} :
             /\ last' = [call EXCEPT !.outcome = IF r.ok THEN "ok" ELSE "error",
                                     !.error = r.error, !.results = r.notionResults,
                                     !.webResults = r.webResults,
                                     !.context = r.context,
                                     !.embeds = r.embeds, !.requests = r.requests]
             /\ calls' = [calls EXCEPT !.ops = @ + 1, !.rag = @ + 1, !.web = @ + r.web]
       /\ UNCHANGED <<agents, activeContexts, previousMessages, tasks, indexVars,
                      routed, agentManager, appended, pending, sessionData>>

\* RAGSystem.addDocument(content, metadata): one entry under a fresh id
AddDocument(content, env) ==
    LET call == [NoCall EXCEPT !.op = "addDocument", !.query = content]
        failed(error) ==
            /\ last' = [call EXCEPT !.outcome = "error", !.error = error]
            /\ UNCHANGED store
    IN /\ IF collection = "null" THEN failed(ErrNotInitialized)
          ELSE IF ~env.embed THEN failed(ErrEmbed)
          ELSE IF ~env.add \/ collection # "handle" THEN failed(ErrStore)
          ELSE /\ store' = Append(store,
                              [id |-> "doc_" \o ToString(calls.ops),
                               document |-> content,
                               embedding |-> Embed(content),
                               metadata |-> [title |-> "added", source |-> "document"]])
               /\ last' = [call EXCEPT !.outcome = "ok"]
       /\ calls' = [calls EXCEPT !.ops = @ + 1]
       /\ UNCHANGED <<agents, activeContexts, previousMessages, tasks, collection,
                      pages, indexed, routed, agentManager, appended, pending, sessionData>>

ClearCollectionKeepsEntries(env) ==
    /\ last' = [NoCall EXCEPT !.op = "clear", !.dropped = Len(store),
                              !.outcome = IF collection = "handle" THEN "ok" ELSE "error"]
    /\ calls' = [calls EXCEPT !.ops = @ + 1]
    /\ UNCHANGED <<agents, activeContexts, previousMessages, tasks, indexVars,
                   routed, agentManager, appended, pending, sessionData>>

\* RAGSystem.clearCollection: delete the collection, create it again. When the
\* second request fails the field keeps the handle of the deleted collection.
ClearCollection(env) ==
    LET call == [NoCall EXCEPT !.op = "clear", !.dropped = Len(store)]
    IN /\ IF collection = "null"
          THEN /\ last' = [call EXCEPT !.outcome = "error", !.error = ErrNotInitialized]
               /\ UNCHANGED <<collection, store, indexed>>
          ELSE IF ~env.delete
          THEN /\ last' = [call EXCEPT !.outcome = "error", !.error = ErrStore]
               /\ UNCHANGED <<collection, store, indexed>>
          ELSE IF ~env.create
          THEN /\ last' = [call EXCEPT !.outcome = "error", !.error = ErrStore]
               /\ store' = <<>>
               /\ collection' = "stale"
               /\ indexed' = [done |-> FALSE, pages |-> <<>>, items |-> <<>>]
          ELSE /\ last' = [call EXCEPT !.outcome = "ok"]
               /\ store' = <<>>
               /\ collection' = "handle"
               /\ indexed' = [done |-> FALSE, pages |-> <<>>, items |-> <<>>]
       /\ calls' = [calls EXCEPT !.ops = @ + 1]
       /\ UNCHANGED <<agents, activeContexts, previousMessages, tasks, pages,
                      routed, agentManager, appended, pending, sessionData>>

\* the run of indexNotionWorkspace in which every request is answered
IndexServed == [search |-> TRUE, item |-> [p \in PageIds |-> "ok"], add |-> TRUE]

NextSearch ==
    \/ RagInitialize
    \/ /\ calls.ops < MaxSearchOps
       /\ IndexNotionWorkspace(IndexServed)
    \/ \E content \in Queries, env \in AddEnvs :
          /\ calls.ops < MaxSearchOps
          /\ AddDocument(content, env)
    \/ \E env \in ClearEnvs :
          /\ calls.ops < MaxSearchOps
          /\ ClearCollection(env)
    \/ \E query \in Queries, limit \in Limits, env \in SearchEnvs :
          /\ calls.ops < MaxSearchOps
          /\ Search(query, limit, env)
    \/ \E query \in Queries, includeWeb \in BOOLEAN, env \in SearchEnvs :
          /\ calls.ops < MaxSearchOps
          /\ GetContext(query, includeWeb, env)

SpecSearch == InitIndex /\ [][NextSearch]_vars


(***************************************************************************)
(* BaseAgent.generateResponse: the request it sends to the text-generation *)
(* provider. A message of the request is [role, content, context]; context *)
(* is the retrieved context string put before the content, <<>> if none.   *)
(***************************************************************************)
SystemPrompt == [kind |-> "systemPrompt", text |-> <<>>]

RequestMessage(role, content, context) ==
    [role |-> role, content |-> content, context |-> context]

RequestMessagesWholeHistory(history, userMessage, ragContext) ==
    <<RequestMessage("system", SystemPrompt, <<>>)>>
    \o [i \in 1..Len(history) |->
          RequestMessage(history[i].role, history[i].content, <<>>)]
    \o <<RequestMessage("user", [kind |-> "message", text |-> userMessage], ragContext)>>

\* the `messages` array: the system prompt, previousMessages.slice(-5) as role
\* and content, the user message with the context before it
RequestMessages(history, userMessage, ragContext) ==
    <<RequestMessage("system", SystemPrompt, <<>>)>>
    \o [i \in 1..Len(LastN(history, HistoryWindow)) |->
          RequestMessage(LastN(history, HistoryWindow)[i].role,
                         LastN(history, HistoryWindow)[i].content, <<>>)]
    \o <<RequestMessage("user", [kind |-> "message", text |-> userMessage], ragContext)>>

\* generateResponse(userMessage, context, includeRAG, includeWeb) on the
\* history of conversation c; env.llm tells whether the completion succeeds
GenerateResponseCall(userMessage, c, includeRAG, includeWeb, env) ==
    LET call == [NoCall EXCEPT !.op = "generateResponse", !.conv = c,
                               !.query = userMessage, !.includeWeb = includeWeb,
                               !.useIndex = includeRAG]
    IN /\ c \in 1..Len(previousMessages)
       /\ \E rag \in {IF includeRAG THEN ContextFor(userMessage, includeWeb, env)
                      ELSE [ok |-> TRUE, error |-> None, notionResults |-> <<>>,
                            webResults |-> <<>>, context |-> <<>>,
                            embeds |-> 0, requests |-> 0, web |-> 0]} :
             IF ~rag.ok
             THEN /\ last' = [call EXCEPT !.outcome = "error", !.error = rag.error]
                  /\ calls' = [calls EXCEPT !.ops = @ + 1,
                                            !.rag = @ + 1, !.web = @ + rag.web]
             ELSE /\ last' = [call EXCEPT
                                !.outcome = IF env.llm = "throws" THEN "error" ELSE "ok",
                                !.error = IF env.llm = "throws" THEN ErrLlm ELSE None,
                                !.llmFailed = env.llm = "throws",
                                !.context = rag.context,
                                !.request = RequestMessages(previousMessages[c],
                                                            userMessage, rag.context)]
                  /\ calls' = [calls EXCEPT !.ops = @ + 1,
                                            !.rag = @ + (IF includeRAG THEN 1 ELSE 0),
                                            !.web = @ + rag.web,
                                            !.llm = @ + 1]
       /\ UNCHANGED <<agents, activeContexts, previousMessages, tasks, indexVars,
                      routed, agentManager, appended, pending, sessionData>>

\* an initialized index and one conversation with a history of any length
InitRequest ==
    \E n \in 0..MaxRequestHistory :
        /\ agents = RegisteredByInitialize
        /\ activeContexts = {1}
        /\ previousMessages = <<InitialHistory(n)>>
        /\ tasks = <<>>
        /\ collection = "handle"
        /\ store = <<>>
        /\ pages = <<>>
        /\ calls = [ops |-> 0, exec |-> 0, rag |-> 0, web |-> 0, llm |-> 0, notion |-> 0]
        /\ last = NoCall
        /\ indexed = [done |-> FALSE, pages |-> <<>>, items |-> <<>>]
        /\ routed = [message |-> <<>>, agent |-> None]
        /\ appended = <<>>
        /\ pending = <<>>
        /\ sessionData = <<NoData>>
        /\ agentManager = "manager"

RequestEnvs ==
    {[embed |-> e[1], query |-> e[2], web |-> w, llm |-> llm] :
        e \in {<<TRUE, TRUE>>, <<FALSE, TRUE>>, <<TRUE, FALSE>>},
        w \in WebAnswers, llm \in {"prose", "throws"}}

NextRequest ==
    \/ /\ calls.ops < MaxRequestOps
       /\ AddDocument(<<"alpha">>, [embed |-> TRUE, add |-> TRUE])
    \/ \E userMessage \in {<<"alpha">>, <<"beta">>}, includeRAG \in BOOLEAN,
          includeWeb \in BOOLEAN, env \in RequestEnvs :
          /\ calls.ops < MaxRequestOps
          /\ GenerateResponseCall(userMessage, 1, includeRAG, includeWeb, env)

SpecRequest == InitRequest /\ [][NextRequest]_vars

(***************************************************************************)
(* The orchestrator and the knowledge index together: agents run while the *)
(* index is filled and asked for context.                                  *)
(***************************************************************************)
PlanningMessages == {MsgPlanTimeline, MsgResearchQuantum}

\* the outcomes of an agent's requests: all succeed, or the index fails
ContextEnvs ==
    {[ragFailAt |-> 0, llm |-> "plan", notion |-> TRUE],
     [ragFailAt |-> 1, llm |-> "plan", notion |-> TRUE]}

NextContext ==
    \/ /\ agents = {}
       /\ Initialize(TRUE)
    \/ CreateContext
    \/ \E k \in CallerTasks : NewTask(k[1], k[2])
    \/ /\ calls.ops < MaxContextOps
       /\ AddDocument(<<"alpha">>, [embed |-> TRUE, add |-> TRUE])
    \/ \E includeWeb \in BOOLEAN, env \in SearchEnvs :
          /\ calls.ops < MaxContextOps
          /\ GetContext(<<"alpha">>, includeWeb, env)
    \/ \E agentType \in RegisteredByInitialize, t \in 1..Len(tasks),
          c \in 1..Len(previousMessages) :
          /\ calls.ops < MaxContextOps
          /\ ExecuteTask(agentType, t, c,
                         [ragFailAt |-> 0, llm |-> "plan", notion |-> TRUE])
    \/ \E message \in PlanningMessages, env \in ContextEnvs :
          /\ calls.ops < MaxContextOps
          /\ Chat(message, 0, None, env)

SpecContext == InitIdle /\ [][NextContext]_vars

(***************************************************************************)
(* Calls in flight. chat and executeTask are async functions: each runs up *)
(* to its first external request, is suspended there, and goes on when the *)
(* request has settled; other calls, clearContext and clearAllContexts run *)
(* in between. A call in flight holds its context object.                  *)
(*   phase "agent"    the agent's requests are outstanding                 *)
(*   phase "respond"  the agent returned; chat is about to push its reply  *)
(***************************************************************************)
SetContextKeepsCleared(c) == activeContexts

\* this.activeContexts.set(context.conversationId, context)
SetContext(c) == activeContexts \cup {c}

ClearedIdIsReused(conversationId) ==
    IF conversationId \in activeContexts \/ conversationId \in 1..Len(previousMessages)
    THEN conversationId
    ELSE Len(previousMessages) + 1

\* chat, "Get or create context": the context the call works on; a created
\* one gets the next fresh id
ResolveContext(conversationId) ==
    IF conversationId \in activeContexts THEN conversationId
    ELSE Len(previousMessages) + 1

RemoveAt(s, k) == SubSeq(s, 1, k - 1) \o SubSeq(s, k + 1, Len(s))

\* the task researchTopic / planProject creates; execute sets it running
\* before its first request
AgentTaskOf(agent, path, message) ==
    IF path = "research"
    THEN <<UpdateTaskStatus(
             CreateTask(agent, "Research topic",
                        Parameters(OfMessage[message].topic, <<>>, "true", "false",
                                   Undefined)),
             "running", Undefined, Undefined)>>
    ELSE IF path = "plan"
    THEN <<UpdateTaskStatus(
             CreateTask(agent, "Plan project",
                        Parameters(<<>>, OfMessage[message].project, Undefined,
                                   Undefined, Undefined)),
             "running", Undefined, Undefined)>>
    ELSE <<>>

\* chat from its start to the first request of the agent
ChatBegin(message, conversationId, preferredAgent) ==
    \E c \in {ResolveContext(conversationId)} :
    \E created \in {c \notin 1..Len(previousMessages)} :
    \E entered \in {ChatPushUser(IF created THEN <<>> ELSE previousMessages[c], message)} :
    \E agentType \in {IF preferredAgent # None THEN preferredAgent
                      ELSE OfMessage[message].routed} :
    \E agent \in {Lookup(agentType)} :
    \E made \in {AgentTaskOf(agent, ChatPath(agentType, message), message)} :
    \E call \in {[NoCall EXCEPT !.op = "chatBegin", !.conv = c,
                               !.supplied = conversationId, !.message = message,
                               !.agentType = agentType, !.preferred = preferredAgent,
                               !.registered = agents, !.created = created]} :
       /\ previousMessages' = SetHistory(c, entered)
       /\ sessionData' = SetData(c)
       /\ activeContexts' = IF created THEN SetContext(c) ELSE activeContexts
       /\ calls' = [calls EXCEPT !.ops = @ + 1]
       /\ IF agent = None
          THEN /\ last' = [call EXCEPT !.outcome = "error", !.stage = "lookup",
                                       !.error = "Agent not available"]
               /\ UNCHANGED <<tasks, pending>>
          ELSE /\ tasks' = tasks \o <<ChatTask(agentType)>> \o made
               /\ pending' = Append(pending,
                                 [op |-> "chat", conv |-> c, message |-> message,
                                  agentType |-> agentType, phase |-> "agent",
                                  task |-> Len(tasks) + 1,
                                  agentTask |-> IF made = <<>> THEN 0 ELSE Len(tasks) + 2,
                                  userAt |-> Len(entered), created |-> created,
                                  response |-> [kind |-> Undefined, text |-> <<>>]])
               /\ last' = [call EXCEPT !.outcome = "pending",
                                       !.task = Len(tasks) + 1]
       /\ UNCHANGED <<agents, indexVars, routed, agentManager, appended>>

\* the requests of the agent have settled: execute appends to the history and
\* returns, or generateResponse returns; or the call ends with their error
ChatAgent(k, env) ==
    \E p \in {pending[k]} :
    /\ p.op = "chat"
    /\ p.phase = "agent"
    /\ \E work \in {ChatWork(p.agentType, p.agentType, p.message,
                             previousMessages[p.conv], env)} :
       \E call \in {[NoCall EXCEPT !.op = "chatAgent", !.conv = p.conv,
                               !.message = p.message, !.agentType = p.agentType,
                               !.task = p.task, !.agentTask = p.agentTask,
                               !.userAt = p.userAt, !.created = p.created,
                               !.llmFailed = ProviderFailed(env, work.done)]} :
       /\ previousMessages' = [previousMessages EXCEPT ![p.conv] = work.history]
       /\ tasks' = IF p.agentTask = 0 THEN tasks
                   ELSE [tasks EXCEPT ![p.agentTask] = work.made[1]]
       /\ calls' = [calls EXCEPT !.exec = @ + 1,
                                 !.rag = @ + work.done.rag, !.web = @ + work.done.web,
                                 !.llm = @ + work.done.llm,
                                 !.notion = @ + work.done.notion]
       /\ IF work.ok
          THEN /\ pending' = [pending EXCEPT ![k].phase = "respond",
                                             ![k].response = work.response]
               /\ last' = [call EXCEPT !.outcome = "pending"]
          ELSE /\ pending' = RemoveAt(pending, k)
               /\ last' = [call EXCEPT !.outcome = "error", !.stage = "agent",
                                       !.error = work.error]
       /\ UNCHANGED <<agents, activeContexts, indexVars, routed, agentManager, appended, sessionData>>

\* chat pushes the response, registers the context and returns
ChatEnd(k) ==
    \E p \in {pending[k]} :
       /\ p.op = "chat"
       /\ p.phase = "respond"
       /\ previousMessages' =
              [previousMessages EXCEPT
                  ![p.conv] = ChatPushAssistant(@, p.response, p.agentType)]
       /\ activeContexts' = SetContext(p.conv)
       /\ pending' = RemoveAt(pending, k)
       /\ last' = [NoCall EXCEPT !.op = "chatEnd", !.outcome = "ok", !.conv = p.conv,
                                 !.message = p.message, !.agentType = p.agentType,
                                 !.task = p.task, !.agentTask = p.agentTask,
                                 !.userAt = p.userAt,
                                 !.reregistered = p.conv \notin activeContexts]
       /\ UNCHANGED <<agents, tasks, calls, indexVars, routed, agentManager, appended, sessionData>>

\* executeTask from its start to the first request of the agent
ExecuteBegin(agentType, t, c) ==
    LET agent == Lookup(agentType)
        call == [NoCall EXCEPT !.op = "executeBegin", !.conv = c, !.supplied = c,
                               !.agentType = agentType, !.task = t,
                               !.registered = agents]
    IN /\ t \in 1..Len(tasks)
       /\ tasks[t].description = "caller"
       /\ c \in 1..Len(previousMessages)
       /\ calls' = [calls EXCEPT !.ops = @ + 1]
       /\ IF agent = None
          THEN /\ last' = [call EXCEPT !.outcome = "error", !.stage = "lookup",
                                       !.error = "Agent not found"]
               /\ UNCHANGED <<tasks, pending>>
          ELSE /\ tasks' = [tasks EXCEPT
                              ![t] = UpdateTaskStatus(@, "running", Undefined, Undefined)]
               /\ pending' = Append(pending,
                                 [op |-> "executeTask", conv |-> c, message |-> <<>>,
                                  agentType |-> agentType, phase |-> "agent",
                                  task |-> t, agentTask |-> t, userAt |-> 0,
                                  created |-> FALSE,
                                  response |-> [kind |-> Undefined, text |-> <<>>]])
               /\ last' = [call EXCEPT !.outcome = "pending"]
       /\ UNCHANGED <<agents, activeContexts, previousMessages, indexVars, routed, agentManager,
                      appended, sessionData>>

\* the requests of the agent have settled: execute appends and returns, and
\* executeTask registers the context; or both throw
ExecuteEnd(k, env) ==
    \E p \in {pending[k]} :
    /\ p.op = "executeTask"
    /\ \E run \in {Execute(p.agentType, tasks[p.task], previousMessages[p.conv], env)} :
       \E call \in {[NoCall EXCEPT !.op = "executeEnd", !.conv = p.conv,
                               !.supplied = p.conv,
                               !.agentType = p.agentType, !.task = p.task,
                               !.llmFailed = ProviderFailed(env, run.done),
                               !.reregistered = p.conv \notin activeContexts]} :
       /\ tasks' = [tasks EXCEPT ![p.task] = run.task]
       /\ previousMessages' = [previousMessages EXCEPT ![p.conv] = run.history]
       /\ calls' = [calls EXCEPT !.exec = @ + 1,
                                 !.rag = @ + run.done.rag, !.web = @ + run.done.web,
                                 !.llm = @ + run.done.llm, !.notion = @ + run.done.notion]
       /\ pending' = RemoveAt(pending, k)
       /\ IF run.ok
          THEN /\ activeContexts' = SetContext(p.conv)
               /\ last' = [call EXCEPT !.outcome = "ok"]
          ELSE /\ UNCHANGED activeContexts
               /\ last' = [call EXCEPT !.outcome = "error", !.stage = "agent",
                                       !.error = run.error]
       /\ UNCHANGED <<agents, indexVars, routed, agentManager, appended, sessionData>>

\* AgentManager.createContext(userId, sessionData)
CreateContextCall(data) ==
    /\ CreateContextWith(data)
    /\ calls' = [calls EXCEPT !.ops = @ + 1]
    /\ last' = [NoCall EXCEPT !.op = "createContext", !.outcome = "ok",
                              !.conv = Len(previousMessages) + 1]

ClearContextClearsAll(conversationId) ==
    /\ activeContexts' = {}
    /\ calls' = [calls EXCEPT !.ops = @ + 1]
    /\ last' = [NoCall EXCEPT !.op = "clearContext", !.outcome = "ok",
                              !.conv = conversationId, !.supplied = conversationId]
    /\ UNCHANGED <<agents, previousMessages, tasks, indexVars, routed, agentManager, appended,
                   pending, sessionData>>

\* AgentManager.clearContext(conversationId)
ClearContext(conversationId) ==
    /\ activeContexts' = activeContexts \ {conversationId}
    /\ calls' = [calls EXCEPT !.ops = @ + 1]
    /\ last' = [NoCall EXCEPT !.op = "clearContext", !.outcome = "ok",
                              !.conv = conversationId, !.supplied = conversationId]
    /\ UNCHANGED <<agents, previousMessages, tasks, indexVars, routed, agentManager, appended,
                   pending, sessionData>>

\* AgentManager.clearAllContexts()
ClearAllContexts ==
    /\ activeContexts' = {}
    /\ calls' = [calls EXCEPT !.ops = @ + 1]
    /\ last' = [NoCall EXCEPT !.op = "clearAll", !.outcome = "ok"]
    /\ UNCHANGED <<agents, previousMessages, tasks, indexVars, routed, agentManager, appended,
                   pending, sessionData>>

\* an id no context was ever created under
UnknownId == -1

AsyncMessages == {MsgResearchQuantum}

AsyncEnvs ==
    {[ragFailAt |-> 0, llm |-> "plan", notion |-> TRUE],
     [ragFailAt |-> 0, llm |-> "throws", notion |-> TRUE]}

\* an initialized manager, no conversation yet
InitAsync ==
    /\ agents = RegisteredByInitialize
    /\ activeContexts = {}
    /\ previousMessages = <<>>
    /\ tasks = <<>>
    /\ collection = "handle"
    /\ store = <<>>
    /\ pages = <<>>
    /\ calls = [ops |-> 0, exec |-> 0, rag |-> 0, web |-> 0, llm |-> 0, notion |-> 0]
    /\ last = NoCall
    /\ indexed = [done |-> FALSE, pages |-> <<>>, items |-> <<>>]
    /\ routed = [message |-> <<>>, agent |-> None]
    /\ appended = <<>>
    /\ pending = <<>>
    /\ sessionData = <<>>
    /\ agentManager = "manager"

NextAsync ==
    \/ \E data \in {"{k}"} :
          /\ calls.ops < MaxAsyncOps
          /\ Len(previousMessages) < MaxAsyncContexts
          /\ CreateContextCall(data)
    \/ /\ Len(tasks) = 0
       /\ NewTask("content-research", Parameters(<<"A","I">>, <<>>, "true", "true", Undefined))
    \/ \E message \in AsyncMessages, preferredAgent \in {None, "analytics"},
          conversationId \in {0, UnknownId} \cup (1..Len(previousMessages)) :
          /\ calls.ops < MaxAsyncOps
          /\ Len(pending) < MaxPending
          /\ conversationId \in activeContexts \/ Len(previousMessages) < MaxAsyncContexts
          /\ ChatBegin(message, conversationId, preferredAgent)
    \/ \E k \in 1..Len(pending), env \in AsyncEnvs : ChatAgent(k, env)
    \/ \E k \in 1..Len(pending) : ChatEnd(k)
    \/ \E agentType \in {"content-research"}, t \in 1..Len(tasks),
          c \in 1..Len(previousMessages) :
          /\ calls.ops < MaxAsyncOps
          /\ Len(pending) < MaxPending
          /\ ExecuteBegin(agentType, t, c)
    \/ \E k \in 1..Len(pending), env \in AsyncEnvs : ExecuteEnd(k, env)
    \/ \E conversationId \in 1..Len(previousMessages) :
          /\ calls.ops < MaxAsyncOps
          /\ ClearContext(conversationId)
    \/ /\ calls.ops < MaxAsyncOps
       /\ ClearAllContexts

SpecAsync == InitAsync /\ [][NextAsync]_vars

(***************************************************************************)
(* The tool gateway. At start-up, with OPENAI_API_KEY set, the gateway     *)
(* constructs the AgentManager and starts initialize() without awaiting    *)
(* it; a rejected initialize() sets the gateway's variable back to null.   *)
(* Each agent tool runs checkAgentsAvailable first and turns every error   *)
(* thrown in its body into the text of its reply.                          *)
(***************************************************************************)
ErrAgentSystem == "Agent system not available"
ErrNotionConfig == "Notion API key not configured"

AgentsAvailableWhenInitialized == agentManager # Null /\ agents # {}

\* checkAgentsAvailable passes
AgentsAvailable == agentManager # Null

\* initialize() has been started and has not settled
InitializePending == agentManager # Null /\ agents = {} /\ collection = "null"

\* the reply of a tool whose body threw before it reached the manager
ToolThrows(tool, error) ==
    /\ last' = [NoCall EXCEPT !.op = tool, !.outcome = "error", !.stage = "gateway",
                              !.error = error, !.registered = agents]
    /\ calls' = [calls EXCEPT !.ops = @ + 1]
    /\ UNCHANGED <<agents, activeContexts, previousMessages, tasks, indexVars, routed,
                   appended, pending, sessionData, agentManager>>

\* agentManager.initialize() settles: the agents are registered, or the
\* gateway's catch handler discards the manager
InitializeSettles(storeUp) ==
    /\ InitializePending
    /\ IF storeUp
       THEN /\ collection' = "handle"
            /\ agents' = RegisteredByInitialize
            /\ UNCHANGED agentManager
       ELSE /\ agentManager' = Null
            /\ UNCHANGED <<collection, agents>>
    /\ UNCHANGED <<activeContexts, previousMessages, tasks, calls, store, pages,
                   indexed, last, routed, appended, pending, sessionData>>

\* tool agent_chat
AgentChat(message, conversationId, preferredAgent, env) ==
    IF AgentsAvailable
    THEN Chat(message, conversationId, preferredAgent, env)
    ELSE ToolThrows("agent_chat", ErrAgentSystem)

\* tools research_and_create_page and create_project_plan: a new context, a
\* new task, executeTask
AgentTaskTool(tool, agentType, parameters, configured, env) ==
    IF ~AgentsAvailable THEN ToolThrows(tool, ErrAgentSystem)
    ELSE IF ~configured /\ (tool = "research_and_create_page"
                            \/ parameters.createDatabase = "true")
    THEN ToolThrows(tool, ErrNotionConfig)
    ELSE \E c \in {Len(previousMessages) + 1}, agent \in {Lookup(agentType)} :
         \E run \in {Execute(agent, CreateTask(agentType, "caller", parameters),
                             <<>>, env)} :
         \E call \in {[NoCall EXCEPT !.op = tool, !.conv = c,
                                     !.agentType = agentType,
                                     !.task = Len(tasks) + 1,
                                     !.registered = agents, !.created = TRUE]} :
            /\ activeContexts' = activeContexts \cup {c}
            /\ sessionData' = Append(sessionData, NoData)
            /\ IF agent = None
               THEN /\ tasks' = Append(tasks, CreateTask(agentType, "caller", parameters))
                    /\ previousMessages' = Append(previousMessages, <<>>)
                    /\ calls' = Count(NoCalls, 1, 0)
                    /\ last' = [call EXCEPT !.outcome = "error", !.stage = "lookup",
                                            !.error = "Agent not found"]
               ELSE /\ tasks' = Append(tasks, run.task)
                    /\ previousMessages' = Append(previousMessages, run.history)
                    /\ calls' = Count(run.done, 1, 1)
                    /\ last' = IF run.ok
                               THEN [call EXCEPT !.outcome = "ok"]
                               ELSE [call EXCEPT !.outcome = "error", !.stage = "agent",
                                                 !.error = run.error]
            /\ UNCHANGED <<agents, indexVars, routed, appended, pending, agentManager>>

\* tool index_notion_workspace, rebuild = false
IndexWorkspaceTool(configured, env) ==
    IF ~AgentsAvailable THEN ToolThrows("index_notion_workspace", ErrAgentSystem)
    ELSE IF ~configured THEN ToolThrows("index_notion_workspace", ErrNotionConfig)
    ELSE IndexNotionWorkspace(env)

\* tool get_available_agents
GetAvailableAgents ==
    IF ~AgentsAvailable THEN ToolThrows("get_available_agents", ErrAgentSystem)
    ELSE /\ last' = [NoCall EXCEPT !.op = "get_available_agents", !.outcome = "ok",
                                   !.registered = agents]
         /\ calls' = [calls EXCEPT !.ops = @ + 1]
         /\ UNCHANGED <<agents, activeContexts, previousMessages, tasks, indexVars,
                        routed, appended, pending, sessionData, agentManager>>

GatewayMessages == {MsgHello, MsgResearchQuantum}

GatewayIndexEnvs ==
    {[search |-> TRUE, item |-> [p \in PageIds |-> "ok"], add |-> TRUE]}

\* the gateway process has started: with the key, the manager is constructed
\* and initialize() is outstanding; without it, there is no manager
InitGateway ==
    \E key \in BOOLEAN :
        /\ agents = {}
        /\ activeContexts = {}
        /\ previousMessages = <<>>
        /\ tasks = <<>>
        /\ collection = "null"
        /\ store = <<>>
        /\ pages = [p \in PageIds |->
                       [title |-> PageTitle[p], blocks |-> <<Paragraph("alpha")>>,
                        lastEdited |-> 0]]
        /\ calls = [ops |-> 0, exec |-> 0, rag |-> 0, web |-> 0, llm |-> 0, notion |-> 0]
        /\ last = NoCall
        /\ indexed = [done |-> FALSE, pages |-> <<>>, items |-> <<>>]
        /\ routed = [message |-> <<>>, agent |-> None]
        /\ appended = <<>>
        /\ pending = <<>>
        /\ sessionData = <<>>
        /\ agentManager = IF key THEN "manager" ELSE Null

NextGateway ==
    \/ \E storeUp \in BOOLEAN : InitializeSettles(storeUp)
    \/ \E message \in GatewayMessages, preferredAgent \in {None, "task-planning"},
          env \in AsyncEnvs, conversationId \in {0} \cup (1..Len(previousMessages)) :
          /\ calls.ops < MaxGatewayOps
          /\ AgentChat(message, conversationId, preferredAgent, env)
    \/ \E ct \in CallerTasks, configured \in BOOLEAN, env \in AsyncEnvs :
          /\ calls.ops < MaxGatewayOps
          /\ Len(previousMessages) < MaxContexts
          /\ AgentTaskTool(IF ct[1] = "content-research"
                           THEN "research_and_create_page"
                           ELSE "create_project_plan",
                           ct[1], ct[2], configured, env)
    \/ \E configured \in BOOLEAN, env \in GatewayIndexEnvs :
          /\ calls.ops < MaxGatewayOps
          /\ IndexWorkspaceTool(configured, env)
    \/ /\ calls.ops < MaxGatewayOps
       /\ GetAvailableAgents

SpecGateway == InitGateway /\ [][NextGateway]_vars

(***************************************************************************)
(* C1.                                                                     *)
(***************************************************************************)
\* C1: in every state reachable by chat calls on a conversation, the
\* conversation's history holds at most 20 entries.
C1_HistoryAtMostCap ==
    \A c \in 1..Len(previousMessages) : Len(previousMessages[c]) <= HistoryCap

(***************************************************************************)
(* C2.                                                                     *)
(***************************************************************************)
\* C2: after any number of addToConversation calls the history has at most 20
\* entries, and they are the most recently appended ones in their order.
C2_CapKeepsNewest ==
    /\ Len(previousMessages[1]) <= HistoryCap
    /\ previousMessages[1] = LastN(appended, HistoryCap)

\* entries were appended to a full history, so the oldest were dropped
C2_Witness ==
    /\ calls.ops >= 2
    /\ Len(appended) >= HistoryCap + 2
    /\ Len(previousMessages[1]) = HistoryCap
    /\ previousMessages[1][HistoryCap] = appended[Len(appended)]

(***************************************************************************)
(* C3.                                                                     *)
(***************************************************************************)
IsCallStep(op) ==
    /\ calls'.ops = calls.ops + 1
    /\ last'.op = op

\* C3: a chat turn whose agent lookup fails or whose agent work throws ends in
\* an error for the caller, and leaves the conversation's history as it was
\* with exactly the turn's user message appended: the message is kept, no
\* assistant response is added.
C3_FailedTurnKeepsUserMessage ==
    [][(/\ IsCallStep("chat")
        /\ \/ last'.agentType \notin agents
           \/ last'.outcome = "error")
       => LET c == last'.conv
              before == IF c \in activeContexts THEN previousMessages[c] ELSE <<>>
              now == previousMessages'[c]
          IN /\ last'.outcome = "error"
             /\ last'.error # None
             /\ c \in activeContexts'
             /\ now = Append(before, Entry("user", [kind |-> "message",
                                                   text |-> last'.message],
                                           Undefined))
             /\ now[Len(now)].role = "user"]_vars

\* a turn on a registered agent failed in the agent's work
C3_Witness ==
    /\ last.op = "chat"
    /\ last.outcome = "error"
    /\ last.stage = "agent"
    /\ last.message = MsgResearchQuantum
    /\ Len(previousMessages[last.conv]) = 1

(***************************************************************************)
(* C4.                                                                     *)
(***************************************************************************)
\* C4: the status of every task only moves forward: it never returns to
\* pending, and once completed or failed it never changes again.
C4_StatusMonotonic ==
    [][\A t \in 1..Len(tasks) :
          /\ tasks[t].status # "pending" => tasks'[t].status # "pending"
          /\ tasks[t].status \in {"completed", "failed"}
                => tasks'[t].status = tasks[t].status]_vars

(***************************************************************************)
(* C5.                                                                     *)
(***************************************************************************)
\* C5: when the agent's work fails during a chat turn or an executeTask call,
\* the task of that call is failed and carries the error message, and no task
\* of the call is left running.
C5_FailedCallMarksTask ==
    (last.op \in {"chat", "executeTask"} /\ last.outcome = "error" /\ last.stage = "agent")
        => /\ tasks[last.task].status = "failed"
           /\ tasks[last.task].error = last.error
           /\ last.agentTask # 0 => tasks[last.agentTask].status # "running"

(***************************************************************************)
(* C7.                                                                     *)
(***************************************************************************)
\* C7: after initialize(), chat without preferredAgent never fails at the
\* agent lookup, and "Find all pages about Python" is routed to and answered
\* by notion-intelligence unless that agent's own work fails.
C7_RoutedAgentIsRegistered ==
    (/\ last.op = "chat"
     /\ last.preferred = None
     /\ last.registered = RegisteredByInitialize)
        => /\ last.stage # "lookup"
           /\ last.message = MsgFindPython => last.agentType = "notion-intelligence"

(***************************************************************************)
(* C8.                                                                     *)
(***************************************************************************)
\* C8: chat and executeTask end in an agent-not-registered error whenever the
\* selected type has no registered instance; no agent code runs and no
\* knowledge-index, web, text-generation or Content Store request is made;
\* executeTask also leaves the conversation table, the histories and the
\* tasks as they were.
C8_UnregisteredAgentFailsEarly ==
    [][(/\ \/ IsCallStep("chat")
           \/ IsCallStep("executeTask")
        /\ last'.agentType \notin agents)
       => /\ last'.outcome = "error"
          /\ last'.stage = "lookup"
          /\ last'.error \in {"Agent not available", "Agent not found"}
          /\ calls'.exec = calls.exec
          /\ calls'.rag = calls.rag
          /\ calls'.web = calls.web
          /\ calls'.llm = calls.llm
          /\ calls'.notion = calls.notion
          /\ last'.op = "executeTask"
                => UNCHANGED <<activeContexts, previousMessages, tasks>>]_vars

\* executeTask was handed a type that initialize does not register
C8_Witness ==
    /\ last.op = "executeTask"
    /\ last.stage = "lookup"
    /\ last.agentType = "analytics"
    /\ last.registered = RegisteredByInitialize

(***************************************************************************)
(* C9, C10.                                                                *)
(***************************************************************************)
EntriesOf(p) == {i \in 1..Len(store) : store[i].metadata.pageId = p}

Indexable(p) == last.items[p] = "ok" /\ TextContent(pages[p].blocks) # <<>>

\* C9: an index run over content unchanged since the last complete run, with
\* the Content Store and the vector store answering, succeeds and leaves
\* exactly one entry per indexed item.
C9_RerunAddsNoDuplicates ==
    (last.op = "indexAll" /\ last.rerun /\ last.served)
        => /\ last.outcome = "ok"
           /\ \A p \in PageIds :
                 /\ Cardinality(EntriesOf(p)) <= 1
                 /\ Indexable(p) => Cardinality(EntriesOf(p)) = 1

\* a second run over two indexed pages
C9_Witness ==
    /\ last.op = "indexAll"
    /\ last.rerun
    /\ last.outcome = "ok"
    /\ \A p \in PageIds : Indexable(p) /\ Cardinality(EntriesOf(p)) = 1

\* C10: after a successful index run the entry stored under an indexed item's
\* id holds the item's current text and its embedding.
C10_ReindexOverwrites ==
    (last.op = "indexAll" /\ last.outcome = "ok")
        => \A p \in PageIds :
              Indexable(p) =>
                 \A i \in 1..Len(store) :
                    store[i].id = EntryId(p) =>
                        /\ store[i].document = FullContent(pages[p])
                        /\ store[i].embedding = Embed(FullContent(pages[p]))

Answered(call) == call.error \notin {ErrEmbed, ErrStore}

\* C13: after a successful clearCollection the next call, if it is a search
\* whose requests are answered, returns no result, whatever the query and the
\* limit; the index is initialized and empty, and an addDocument or an index
\* run that follows, its requests answered, succeeds and stores its entries.
C13_ClearEmptiesTheIndex ==
    [][(last.op = "clear" /\ last.outcome = "ok")
       => /\ collection = "handle"
          /\ store = <<>>
          /\ (IsCallStep("search") /\ Answered(last'))
                => last'.outcome = "ok" /\ last'.results = <<>>
          /\ (IsCallStep("addDocument") /\ Answered(last'))
                => /\ last'.outcome = "ok"
                   /\ Len(store') = 1
                   /\ store'[1].document = last'.query
          /\ (IsCallStep("indexAll") /\ last'.served)
                => /\ last'.outcome = "ok"
                   /\ \A p \in PageIds :
                         Indexable(p)' => \E i \in 1..Len(store') :
                                             store'[i].id = EntryId(p)]_vars

\* a search answered right after a clear that dropped entries
C13_Witness ==
    /\ last.op = "search"
    /\ last.after = "clear:ok"
    /\ last.dropped > 0
    /\ last.outcome = "ok"
    /\ last.results = <<>>

(***************************************************************************)
(* C14.                                                                    *)
(***************************************************************************)
\* C14: when the Web Search Provider throws, webSearch returns no results,
\* and getContextForQuery with includeWeb succeeds whenever the search of the
\* index does: it returns the indexed results, no web results and a non-empty
\* context string built from the indexed results alone.
C14_WebFailureIsAbsorbed ==
    [][(/\ IsCallStep("getContext")
        /\ last'.webFailed
        /\ last'.error \notin {ErrNotInitialized, ErrEmbed, ErrStore})
       => /\ last'.outcome = "ok"
          /\ last'.webResults = <<>>
          /\ last'.results =
                 SearchKnowledge(last'.query, DefaultLimit,
                                 [embed |-> TRUE, query |-> TRUE]).results
          /\ last'.context # <<>>
          /\ last'.context = ContextString(last'.results, <<>>)]_vars

\* a context built while the web provider threw and the index had results
C14_Witness ==
    /\ last.op = "getContext"
    /\ last.webFailed
    /\ last.outcome = "ok"
    /\ Len(last.results) > 0
    /\ Len(last.context) = 2 + Len(last.results)

(***************************************************************************)
(* C15.                                                                    *)
(***************************************************************************)
IndexedLines == {"From your Notion workspace:", "notion"}
WebLines == {"From web search:", "web"}

\* C15: getContextForQuery always searches the index and asks the Web Search
\* Provider only when includeWeb is true (once, after the search succeeded);
\* no executeTask or chat turn served by the task-planning agent asks the Web
\* Search Provider; in the context string every line of the indexed section
\* comes before every line of the web section.
C15_WebOnlyOnRequest ==
    [][/\ IsCallStep("getContext")
          => /\ calls'.rag = calls.rag + 1
             /\ last'.error # ErrNotInitialized => last'.embeds = 1
             /\ last'.outcome = "ok" => last'.requests = 1
             /\ calls'.web # calls.web => last'.includeWeb
             /\ (last'.includeWeb /\ last'.outcome = "ok") => calls'.web = calls.web + 1
             /\ \A i, j \in 1..Len(last'.context) :
                   (/\ last'.context[i].kind \in IndexedLines
                    /\ last'.context[j].kind \in WebLines) => i < j
       /\ (/\ IsCallStep("chat") \/ IsCallStep("executeTask")
           /\ last'.agentType = "task-planning")
          => calls'.web = calls.web]_vars

\* a context string with both sections, asked for after a task-planning
\* execute completed
C15_Witness ==
    /\ last.op = "getContext"
    /\ last.includeWeb
    /\ \E i, j \in 1..Len(last.context) :
          last.context[i].kind = "notion" /\ last.context[j].kind = "web"
    /\ \E t \in 1..Len(tasks) :
          tasks[t].type = "task-planning" /\ tasks[t].status = "completed"
    /\ calls.exec = 1
    /\ calls.web = 1

(***************************************************************************)
(* C16.                                                                    *)
(***************************************************************************)
\* C16: every result of a search has a score between 0 and 1, and the results
\* are in non-increasing order of score.
C16_ScoresBoundedAndOrdered ==
    (last.op = "search" /\ last.outcome = "ok")
        => /\ \A k \in 1..Len(last.results) :
                 last.results[k].score >= 0 /\ last.results[k].score <= One
           /\ \A k \in 1..(Len(last.results) - 1) :
                 last.results[k].score >= last.results[k + 1].score

(***************************************************************************)
(* TaskPlanningAgent.validateAndEnhanceTaskBreakdown on the breakdowns the *)
(* model can return. Strings, numbers and arrays are written as strings:   *)
(* "0" is the number 0, "[]" the empty array.                              *)
(***************************************************************************)
EmptyArray == "[]"

\* a value `||` and `!` treat as false
Falsy(value) == value \in {Undefined, Null, "", "0"}

\* `value || other`
OrElse(value, other) == IF Falsy(value) THEN other ELSE value

Position == <<"1", "2", "3", "4">>

EnhanceTaskAvoidsTakenIds(task, index) ==
    [id |-> IF Falsy(task.id) THEN "fresh-" \o Position[index + 1] ELSE task.id,
     title |-> OrElse(task.title, "Task " \o Position[index + 1]),
     description |-> OrElse(task.description, task.title),
     priority |-> OrElse(task.priority, "Medium"),
     estimatedHours |-> OrElse(task.estimatedHours, "8"),
     assignee |-> task.assignee,
     status |-> "Not Started",
     tags |-> OrElse(task.tags, EmptyArray)]

\* the map callback of validateAndEnhanceTaskBreakdown; index counts from 0
EnhanceTask(task, index) ==
    [id |-> OrElse(task.id, "task-" \o Position[index + 1]),
     title |-> OrElse(task.title, "Task " \o Position[index + 1]),
     description |-> OrElse(task.description, task.title),
     priority |-> OrElse(task.priority, "Medium"),
     estimatedHours |-> OrElse(task.estimatedHours, "8"),
     assignee |-> task.assignee,
     status |-> "Not Started",
     tags |-> OrElse(task.tags, EmptyArray)]

ValidateAndEnhanceTaskBreakdown(breakdown, projectDescription) ==
    [projectTitle |-> IF Falsy(breakdown.projectTitle) THEN projectDescription
                      ELSE breakdown.projectTitle,
     mainTasks |-> [i \in 1..Len(breakdown.mainTasks) |->
                       EnhanceTask(breakdown.mainTasks[i], i - 1)],
     timeline |-> IF Falsy(breakdown.timeline) THEN EmptyArray ELSE breakdown.timeline,
     dependencies |-> IF Falsy(breakdown.dependencies) THEN EmptyArray
                      ELSE breakdown.dependencies,
     resources |-> IF Falsy(breakdown.resources) THEN EmptyArray
                   ELSE breakdown.resources]

\* the tasks of the model's breakdown: each field given or left out
ModelTasks ==
    {[id |-> id, title |-> title, description |-> description,
      priority |-> ps[1], estimatedHours |-> estimatedHours,
      assignee |-> Undefined, status |-> ps[2], tags |-> Undefined] :
        id \in {Undefined, "task-2"},
        title \in {Undefined, "Design"},
        description \in {Undefined, "Draw the screens"},
        ps \in {<<Undefined, Undefined>>, <<"High", "Completed">>},
        estimatedHours \in {Undefined, "0", "5"}}

\* the model's breakdown: its tasks, and its arrays given or left out
ModelBreakdown(mainTasks, timeline, others) ==
    [projectTitle |-> Undefined, mainTasks |-> mainTasks, timeline |-> timeline,
     dependencies |-> others, resources |-> others]

PlannedProject == "app"

\* generateStructuredResponse handed a breakdown to execute
InitRepair ==
    \E n \in 0..MaxTasks, timeline \in {Undefined, "[phase]"},
       others \in {Undefined, "[item]"} :
      \E mainTasks \in [1..n -> ModelTasks] :
        /\ agents = {}
        /\ activeContexts = {}
        /\ previousMessages = <<>>
        /\ tasks = <<>>
        /\ collection = "null"
        /\ store = <<>>
        /\ pages = <<>>
        /\ calls = [ops |-> 0, exec |-> 0, rag |-> 1, web |-> 0, llm |-> 1, notion |-> 0]
        /\ last = [NoCall EXCEPT !.op = "planningResponse", !.outcome = "ok",
                                 !.model = ModelBreakdown(mainTasks, timeline, others),
                                 !.breakdown = ModelBreakdown(mainTasks, timeline,
                                                              others)]
        /\ indexed = [done |-> FALSE, pages |-> <<>>, items |-> <<>>]
        /\ routed = [message |-> <<>>, agent |-> None]
        /\ appended = <<>>
        /\ pending = <<>>
        /\ sessionData = <<>>
        /\ agentManager = "manager"

\* validateAndEnhanceTaskBreakdown on the breakdown at hand: the model's, or
\* one already repaired
Repair ==
    /\ last.op \in {"planningResponse", "validateAndEnhanceTaskBreakdown"}
    /\ last.repairs < MaxRepairs
    /\ last' = [last EXCEPT
                  !.op = "validateAndEnhanceTaskBreakdown",
                  !.model = last.breakdown,
                  !.breakdown = ValidateAndEnhanceTaskBreakdown(last.breakdown,
                                                                PlannedProject),
                  !.repairs = @ + 1]
    /\ calls' = [calls EXCEPT !.ops = @ + 1]
    /\ UNCHANGED <<agents, activeContexts, previousMessages, tasks, collection,
                   store, pages, indexed, routed, agentManager, appended, pending, sessionData>>

NextRepair == Repair

SpecRepair == InitRepair /\ [][NextRepair]_vars

(***************************************************************************)
(* generateStructuredResponse on every short generated text                *)
(***************************************************************************)
\* the completion has arrived; its content is any text
InitParse ==
    \E n \in 0..MaxTextLen :
      \E content \in [1..n -> Chars] :
        /\ agents = {}
        /\ activeContexts = {}
        /\ previousMessages = <<>>
        /\ tasks = <<>>
        /\ collection = "null"
        /\ store = <<>>
        /\ pages = <<>>
        /\ calls = [ops |-> 0, exec |-> 0, rag |-> 0, web |-> 0, llm |-> 1, notion |-> 0]
        /\ last = [NoCall EXCEPT !.op = "generateResponse", !.outcome = "ok",
                                 !.text = Generated(content)]
        /\ indexed = [done |-> FALSE, pages |-> <<>>, items |-> <<>>]
        /\ routed = [message |-> <<>>, agent |-> None]
        /\ appended = <<>>
        /\ pending = <<>>
        /\ sessionData = <<>>
        /\ agentManager = "manager"

\* generateStructuredResponse after generateResponse returned
StructureResponse ==
    /\ last.op = "generateResponse"
    /\ \E r \in {ParseStructured(last.text)} :
          last' = [last EXCEPT !.op = "generateStructuredResponse",
                               !.outcome = IF r.threw THEN "threw" ELSE "ok",
                               !.error = IF r.threw THEN r.error ELSE None,
                               !.structured = r]
    /\ calls' = [calls EXCEPT !.ops = @ + 1]
    /\ UNCHANGED <<agents, activeContexts, previousMessages, tasks, collection,
                   store, pages, indexed, routed, agentManager, appended, pending, sessionData>>

NextParse == StructureResponse

SpecParse == InitParse /\ [][NextParse]_vars

\* the positions of the first "{" and of the last "}" of a text, from 1; 0 if absent
FirstBrace(s) ==
    IF \E i \in 1..Len(s) : s[i] = "{"
    THEN CHOOSE i \in 1..Len(s) : s[i] = "{" /\ \A j \in 1..(i - 1) : s[j] # "{"
    ELSE 0

LastBrace(s) ==
    IF \E i \in 1..Len(s) : s[i] = "}"
    THEN CHOOSE i \in 1..Len(s) : s[i] = "}" /\ \A j \in (i + 1)..Len(s) : s[j] # "}"
    ELSE 0

\* C17 (as the code has it): generateStructuredResponse does not throw on a
\* text that fails to parse; it returns the fallback {success: false, message,
\* error}, whose message is the text with surrounding white space removed and
\* cut to the span from its first "{" to its last "}" when a "}" follows a "{",
\* and the text as generated only when nothing is left after trimming.
C17_FallbackCarriesCleanedText ==
    (last.op = "generateStructuredResponse") =>
        /\ last.outcome = "ok"
        /\ ~last.structured.threw
        /\ ~last.structured.parsed =>
              LET t == Trim(last.text)
                  cut == IF FirstBrace(t) > 0 /\ LastBrace(t) > FirstBrace(t)
                         THEN SubSeq(t, FirstBrace(t), LastBrace(t))
                         ELSE t
              IN /\ last.structured.success = FALSE
                 /\ last.structured.error = ErrParse
                 /\ last.structured.message = (IF cut = <<>> THEN last.text ELSE cut)

\* C17 as stated: the fallback's message is the raw generated text.
C17_FallbackCarriesRawText ==
    (last.op = "generateStructuredResponse" /\ ~last.structured.parsed) =>
        /\ last.outcome = "ok"
        /\ last.structured.success = FALSE
        /\ last.structured.message = last.text

C17_Witness ==
    /\ last.op = "generateStructuredResponse"
    /\ ~last.structured.parsed
    /\ FirstBrace(last.text) > 1
    /\ LastBrace(last.text) > FirstBrace(last.text)
    /\ last.structured.message # last.text

\* prose: no member of an object, and no JSON object inside it
Prose(s) ==
    /\ \A i \in 1..Len(s) : s[i] \notin {"m", ","}
    /\ \A a, b \in 1..Len(s) : ~IsJsonObject(SubSeq(s, a, b))

\* C19: a text made of prose, one valid JSON object and prose again parses to
\* exactly that object.
C19_JsonBetweenProseIsParsed ==
    (last.op = "generateStructuredResponse") =>
        \A a, b \in 1..Len(last.text) :
            (/\ a < b
             /\ last.text[a] = "{"
             /\ last.text[b] = "}"
             /\ IsJsonObject(SubSeq(last.text, a, b))
             /\ Prose(SubSeq(last.text, 1, a - 1))
             /\ Prose(SubSeq(last.text, b + 1, Len(last.text))))
            => /\ last.structured.parsed
               /\ last.structured.value = JsonValue(SubSeq(last.text, a, b))

\* what does hold: the object is parsed when the prose around it has no brace
C19_ParsedWhenProseHasNoBrace ==
    (last.op = "generateStructuredResponse") =>
        \A a, b \in 1..Len(last.text) :
            (/\ a < b
             /\ IsJsonObject(SubSeq(last.text, a, b))
             /\ \A i \in (1..(a - 1)) \cup ((b + 1)..Len(last.text)) :
                   last.text[i] \in {" ", "p"}
             /\ last.text[a] = "{"
             /\ last.text[b] = "}")
            => /\ last.structured.parsed
               /\ last.structured.value = JsonValue(SubSeq(last.text, a, b))

\* C18: when the text-generation provider fails during an agent's execute,
\* execute throws the provider's error: the caller receives it and the task
\* records it.
C18_ProviderErrorIsPropagated ==
    (/\ last.op = "executeTask"
     /\ last.llmFailed)
    => /\ last.outcome = "error"
       /\ last.error = ErrLlm
       /\ tasks[last.task].status = "failed"
       /\ tasks[last.task].error = ErrLlm

\* what does hold: the content-research agent propagates the provider's error
C18_ResearchPropagates ==
    (/\ last.op = "executeTask"
     /\ last.llmFailed
     /\ last.agentType = "content-research")
    => /\ last.outcome = "error"
       /\ last.error = ErrLlm
       /\ tasks[last.task].status = "failed"
       /\ tasks[last.task].error = ErrLlm

\* a field the model left out
Missing(value) == Falsy(value)

\* C20 without its last clause: repair keeps the number and order of the
\* tasks; the task at position index gets the model's id, priority and
\* estimate, or task-(index+1), Medium and 8 where the model left them out,
\* and status "Not Started"; a timeline, dependencies or resources the model
\* left out become empty arrays and the others stay.
RepairedAsStated(model, breakdown) ==
    /\ Len(breakdown.mainTasks) = Len(model.mainTasks)
    /\ \A i \in 1..Len(model.mainTasks) :
          LET given == model.mainTasks[i]
              task == breakdown.mainTasks[i]
          IN /\ task.id = (IF Missing(given.id) THEN "task-" \o Position[i]
                           ELSE given.id)
             /\ task.priority = (IF Missing(given.priority) THEN "Medium"
                                 ELSE given.priority)
             /\ task.estimatedHours = (IF Missing(given.estimatedHours) THEN "8"
                                       ELSE given.estimatedHours)
             /\ task.status = "Not Started"
    /\ breakdown.timeline =
          (IF Missing(model.timeline) THEN EmptyArray ELSE model.timeline)
    /\ breakdown.dependencies =
          (IF Missing(model.dependencies) THEN EmptyArray ELSE model.dependencies)
    /\ breakdown.resources =
          (IF Missing(model.resources) THEN EmptyArray ELSE model.resources)

\* C20: repair maps every task to one with the model's id, priority and
\* estimate or their defaults and status "Not Started", substitutes empty
\* arrays for a missing timeline, dependencies and resources, and repairing an
\* already repaired breakdown changes nothing.
C20_RepairDefaultsAndIsIdempotent ==
    (last.op = "validateAndEnhanceTaskBreakdown") =>
        /\ RepairedAsStated(last.model, last.breakdown)
        /\ last.repairs >= 2 => last.breakdown = last.model

\* what does hold: the defaults, on the model's breakdown and on a repaired one
C20_RepairDefaults ==
    (last.op = "validateAndEnhanceTaskBreakdown") =>
        RepairedAsStated(last.model, last.breakdown)

\* what does hold: a third repair changes nothing
C20_SecondRepairIsStable ==
    (last.op = "validateAndEnhanceTaskBreakdown" /\ last.repairs >= 3) =>
        last.breakdown = last.model

(***************************************************************************)
(* C6.  The routing table of the claim: rows in their fixed order.         *)
(***************************************************************************)
RoutingRows ==
    << [agent |-> "content-research",
        phrases |-> {<<"r","e","s","e","a","r","c","h">>,
                     <<"i","n","f","o","r","m","a","t","i","o","n">>,
                     <<"l","e","a","r","n"," ","a","b","o","u","t">>}],
       [agent |-> "task-planning",
        phrases |-> {<<"p","l","a","n">>, <<"p","r","o","j","e","c","t">>,
                     <<"t","a","s","k","s">>, <<"t","i","m","e","l","i","n","e">>}],
       [agent |-> "notion-intelligence",
        phrases |-> {<<"s","e","a","r","c","h">>, <<"f","i","n","d">>,
                     <<"s","h","o","w"," ","m","e">>}],
       [agent |-> "content-enhancement",
        phrases |-> {<<"i","m","p","r","o","v","e">>, <<"e","n","h","a","n","c","e">>,
                     <<"b","e","t","t","e","r">>}],
       [agent |-> "database-architect",
        phrases |-> {<<"d","a","t","a","b","a","s","e">>,
                     <<"s","t","r","u","c","t","u","r","e">>,
                     <<"o","r","g","a","n","i","z","e">>}],
       [agent |-> "analytics",
        phrases |-> {<<"a","n","a","l","y","t","i","c","s">>,
                     <<"i","n","s","i","g","h","t","s">>,
                     <<"t","r","e","n","d","s">>}] >>

RowMatches(r, message) ==
    \E phrase \in RoutingRows[r].phrases : Includes(ToLowerCase(message), phrase)

FirstMatchingRow(message) ==
    IF \E r \in 1..Len(RoutingRows) : RowMatches(r, message)
    THEN RoutingRows[CHOOSE r \in 1..Len(RoutingRows) :
                        /\ RowMatches(r, message)
                        /\ \A q \in 1..(r - 1) : ~RowMatches(q, message)].agent
    ELSE "content-research"

C21_ChatDelegatesItsTask ==
    (last.op = "chat" /\ last.stage # "lookup")
        => /\ last.task \in 1..Len(tasks)
           /\ tasks[last.task].description = "Chat"
           /\ last.agentTask = last.task

\* what does hold: the chat task is constructed in status running and stays so;
\* execute runs at most once, on a task the agent created itself
C21_ChatTaskIsLeftAside ==
    (last.op = "chat" /\ last.stage # "lookup")
        => /\ last.task \in 1..Len(tasks)
           /\ tasks[last.task].description = "Chat"
           /\ tasks[last.task].status = "running"
           /\ last.agentTask \in {0, last.task + 1}
           /\ last.agentTask # 0 => tasks[last.agentTask].description # "Chat"

(***************************************************************************)
(* C30.                                                                    *)
(***************************************************************************)
\* C30: repair gives every task a non-empty id, and a task at position j whose
\* id is missing receives task-(j+1) whatever ids the other tasks carry; the
\* ids of a repaired breakdown need not be pairwise distinct.
C30_IdsComeFromPositionOnly ==
    (last.op = "validateAndEnhanceTaskBreakdown") =>
        \A j \in 1..Len(last.breakdown.mainTasks) :
            /\ last.breakdown.mainTasks[j].id \notin {Undefined, Null, ""}
            /\ last.model.mainTasks[j].id \in {Undefined, Null, ""}
                  => last.breakdown.mainTasks[j].id = "task-" \o Position[j]

\* the model named the first task task-2 and left the second without an id:
\* both repaired tasks are task-2
C30_Witness ==
    /\ last.op = "validateAndEnhanceTaskBreakdown"
    /\ last.repairs = 1
    /\ Len(last.breakdown.mainTasks) = 2
    /\ last.model.mainTasks[1].id = "task-2"
    /\ last.model.mainTasks[2].id = Undefined
    /\ last.breakdown.mainTasks[1].id = last.breakdown.mainTasks[2].id

(***************************************************************************)
(* C27.                                                                    *)
(***************************************************************************)
\* C27: when generateStructuredResponse hands task-planning execute its
\* fallback object or an object without a mainTasks list, the repair step
\* throws: the call fails, the task ends failed, no Content Store request is
\* made and the history is left as it was; the task is not completed.
C27_NoTasksNoPlan ==
    [][(/\ IsCallStep("executeTask")
        /\ last'.planned \in {"fallback", "object"})
       => /\ last'.outcome = "error"
          /\ last'.stage = "agent"
          /\ last'.error = ErrMainTasks
          /\ tasks'[last'.task].status = "failed"
          /\ tasks'[last'.task].result # "taskBreakdown"
          /\ calls'.notion = calls.notion
          /\ previousMessages' = previousMessages]_vars

\* the model answered with an object that has no mainTasks
C27_Witness ==
    /\ last.op = "executeTask"
    /\ last.planned = "object"
    /\ last.outcome = "error"
    /\ tasks[last.task].status = "failed"

(***************************************************************************)
(* C22.                                                                    *)
(***************************************************************************)
\* C22: the request generateResponse sends is the system prompt, then the last
\* min(5, n) entries of the n-entry history in their order, then one user
\* message with the current prompt, prefixed with the context string exactly
\* when the index is used; the provider is asked once, a failure of the
\* provider is thrown on and not retried. (When retrieval fails first, nothing
\* is sent.)
C22_RequestIsPromptRecentHistoryMessage ==
    [][IsCallStep("generateResponse")
       => LET history == previousMessages[last'.conv]
              n == Len(history)
              k == IF n < 5 THEN n ELSE 5
              request == last'.request
          IN /\ previousMessages' = previousMessages
             /\ IF last'.outcome = "ok" \/ last'.llmFailed
                THEN /\ calls'.llm = calls.llm + 1
                     /\ last'.llmFailed => last'.error = ErrLlm /\ last'.outcome = "error"
                     /\ Len(request) = k + 2
                     /\ request[1].role = "system"
                     /\ request[1].content = SystemPrompt
                     /\ \A i \in 1..k :
                           /\ request[1 + i].role = history[n - k + i].role
                           /\ request[1 + i].content = history[n - k + i].content
                           /\ request[1 + i].context = <<>>
                     /\ request[k + 2].role = "user"
                     /\ request[k + 2].content.text = last'.query
                     /\ (request[k + 2].context # <<>>) <=> last'.useIndex
                     /\ last'.useIndex => request[k + 2].context = last'.context
                ELSE /\ calls'.llm = calls.llm
                     /\ last'.outcome = "error"
                     /\ last'.useIndex]_vars

\* a history longer than the window, the index used, the completion succeeded
C22_Witness ==
    /\ last.op = "generateResponse"
    /\ last.outcome = "ok"
    /\ last.useIndex
    /\ Len(previousMessages[1]) > 5
    /\ Len(last.request) = 7
    /\ Len(last.context) > 1

(***************************************************************************)
(* C23. A chat or executeTask call that is in flight when its conversation *)
(* is cleared (clearContext or clearAllContexts) registers its context     *)
(* again under the same id when it completes successfully: after that step *)
(* the id is registered, and the history found under it still starts with  *)
(* everything it held before, the entries appended ahead of the clear      *)
(* included.                                                               *)
(***************************************************************************)
IsPrefixOf(s, t) == Len(s) <= Len(t) /\ SubSeq(t, 1, Len(s)) = s

C23_CompletedCallRegistersAgain ==
    [][(/\ Len(pending') < Len(pending)
        /\ last'.op \in {"chatEnd", "executeEnd"}
        /\ last'.outcome = "ok")
       => /\ last'.conv \in activeContexts'
          /\ IsPrefixOf(previousMessages[last'.conv], previousMessages'[last'.conv])
          /\ Len(previousMessages'[last'.conv]) > 0]_vars

\* a chat turn has completed on a conversation that was cleared meanwhile
C23_Witness ==
    /\ last.op = "chatEnd"
    /\ last.outcome = "ok"
    /\ last.reregistered
    /\ last.conv \in activeContexts
    /\ Len(previousMessages[last.conv]) >= 2

\* the same for executeTask
C23_ExecuteTaskWitness ==
    /\ last.op = "executeEnd"
    /\ last.outcome = "ok"
    /\ last.reregistered
    /\ last.conv \in activeContexts

(***************************************************************************)
(* C24. Chat calls interleaved on one conversation: while the history is   *)
(* under the cap every step only appends to it, so no entry is lost or     *)
(* overwritten; each call's user message stands in the history before the  *)
(* call's own response, which is the entry the call pushes last. How many  *)
(* entries of other calls lie between the two depends on the interleaving. *)
(***************************************************************************)
C24_InterleavedTurnsOnlyAppend ==
    [][/\ \A c \in 1..Len(previousMessages) :
             Len(previousMessages'[c]) <= HistoryCap
                => IsPrefixOf(previousMessages[c], previousMessages'[c])
       /\ (Len(pending') < Len(pending) /\ last'.op = "chatEnd")
             => LET history == previousMessages'[last'.conv]
                    n == Len(history)
                IN /\ last'.userAt \in 1..(n - 1)
                   /\ history[last'.userAt].role = "user"
                   /\ history[last'.userAt].content =
                          [kind |-> "message", text |-> last'.message]
                   /\ history[n].role = "assistant"
                   /\ history[n].metadata = last'.agentType
                   /\ n = Len(previousMessages[last'.conv]) + 1]_vars

\* a turn has completed whose response does not follow its own user message:
\* the user message of another turn on the same conversation lies between
C24_Witness ==
    /\ last.op = "chatEnd"
    /\ last.outcome = "ok"
    /\ \E i \in (last.userAt + 1)..(Len(previousMessages[last.conv]) - 1) :
          /\ previousMessages[last.conv][i].role = "user"
          /\ previousMessages[last.conv][i].content.kind = "message"

(***************************************************************************)
(* C25. chat called with a conversationId that is not registered (never    *)
(* created, or cleared) does not register that id: it works on a new       *)
(* context under a new id, empty until the call's user message is pushed;  *)
(* the id of the context the call holds and returns differs from the       *)
(* supplied one, and the supplied id is still not registered.              *)
(***************************************************************************)
C25_UnregisteredIdIsNotAdopted ==
    [][(/\ calls'.ops = calls.ops + 1
        /\ last'.op = "chatBegin"
        /\ last'.supplied # 0
        /\ last'.supplied \notin activeContexts)
       => /\ last'.conv # last'.supplied
          /\ last'.conv = Len(previousMessages) + 1
          /\ Len(previousMessages') = Len(previousMessages) + 1
          /\ previousMessages'[last'.conv] = ChatPushUser(<<>>, last'.message)
          /\ last'.conv \in activeContexts'
          /\ last'.supplied \notin activeContexts'
          /\ activeContexts' = activeContexts \cup {last'.conv}
          /\ last'.outcome = "pending"
                => pending'[Len(pending')].conv = last'.conv]_vars

\* a turn was started with the id of a conversation that had been cleared
C25_Witness ==
    /\ last.op = "chatBegin"
    /\ last.supplied \in 1..Len(previousMessages)
    /\ last.supplied \notin activeContexts
    /\ last.conv # last.supplied
    /\ last.conv \in activeContexts

\* a turn was started with an id no context was ever created under
C25_NeverCreatedWitness ==
    /\ last.op = "chatBegin"
    /\ last.supplied = UnknownId
    /\ last.conv \in activeContexts

(***************************************************************************)
(* C26. A chat call that had to create its context and then fails (no      *)
(* agent registered for the turn, or the agent's work throws) leaves the   *)
(* new context registered, its history holding the user message of the     *)
(* call: each such call makes the registry one context larger.             *)
(***************************************************************************)
C26_FailedTurnLeavesItsContext ==
    [][/\ (/\ calls'.ops = calls.ops + 1
           /\ last'.op = "chatBegin"
           /\ last'.created)
          => /\ last'.conv \notin activeContexts
             /\ activeContexts' = activeContexts \cup {last'.conv}
             /\ Cardinality(activeContexts') = Cardinality(activeContexts) + 1
             /\ previousMessages'[last'.conv] = ChatPushUser(<<>>, last'.message)
       /\ (/\ Len(pending') < Len(pending)
           /\ last'.op = "chatAgent"
           /\ last'.outcome = "error"
           /\ last'.created)
          => /\ activeContexts' = activeContexts
             /\ previousMessages'[last'.conv][last'.userAt] =
                    Entry("user", [kind |-> "message", text |-> last'.message],
                          Undefined)
             /\ last'.userAt = 1]_vars

\* two turns without a usable id have failed at the lookup of the agent, and
\* have left two contexts behind
C26_Witness ==
    /\ last.op = "chatBegin"
    /\ last.outcome = "error"
    /\ last.created
    /\ last.conv = 2
    /\ activeContexts = {1, 2}
    /\ pending = <<>>
    /\ calls.ops = 2
    /\ Len(previousMessages[1]) = 1
    /\ Len(previousMessages[2]) = 1

\* the failure came from the agent's work, after a successful lookup
C26_AgentFailureWitness ==
    /\ last.op = "chatAgent"
    /\ last.outcome = "error"
    /\ last.created
    /\ last.conv \in activeContexts
    /\ Len(previousMessages[last.conv]) = 1

(***************************************************************************)
(* C29. Conversations are isolated: a step of chat, executeTask,           *)
(* createContext or clearContext on one conversation leaves the history,   *)
(* the session data and the registration of every other registered         *)
(* conversation as they were, however the calls interleave.                *)
(***************************************************************************)
C29_OtherConversationsUntouched ==
    [][last'.op \in {"chatBegin", "chatAgent", "chatEnd", "executeBegin",
                     "executeEnd", "createContext", "clearContext"}
       => \A other \in activeContexts \ {last'.conv} :
             /\ other \in activeContexts'
             /\ previousMessages'[other] = previousMessages[other]
             /\ sessionData'[other] = sessionData[other]]_vars

\* a turn has completed on one conversation while another one, with a history
\* and session data of its own, is registered
C29_Witness ==
    /\ last.op = "chatEnd"
    /\ \E other \in activeContexts \ {last.conv} :
          /\ Len(previousMessages[other]) > 0
          /\ sessionData[other] # NoData

\* one conversation has been cleared while another one is registered
C29_ClearWitness ==
    /\ last.op = "clearContext"
    /\ last.conv \notin activeContexts
    /\ \E other \in activeContexts : Len(previousMessages[other]) > 0

(***************************************************************************)
(* C28. At the gateway the manager serves agent tools from its             *)
(* construction on, while initialize() is still outstanding. An agent_chat *)
(* call in that window passes checkAgentsAvailable, finds no agent         *)
(* registered, and replies with the "not available" error of chat, after   *)
(* its context was created and registered and the user message pushed.     *)
(* When initialize() fails, the manager is discarded for good, and from    *)
(* then on every agent tool replies that the agent system is not           *)
(* available and changes nothing.                                          *)
(***************************************************************************)
C28_ManagerServesBeforeInitialized ==
    [][/\ (/\ InitializePending
           /\ calls'.ops = calls.ops + 1
           /\ last'.op \in {"chat", "agent_chat"})
          => /\ last'.op = "chat"
             /\ last'.registered = {}
             /\ last'.outcome = "error"
             /\ last'.stage = "lookup"
             /\ last'.error = "Agent not available"
             /\ last'.conv \in activeContexts'
             /\ last'.supplied \notin activeContexts
                   => /\ last'.conv \notin activeContexts
                      /\ previousMessages'[last'.conv] =
                             ChatPushUser(<<>>, last'.message)
             /\ last'.supplied \in activeContexts
                   => previousMessages'[last'.conv] =
                          ChatPushUser(previousMessages[last'.conv], last'.message)
             /\ UNCHANGED <<agents, agentManager, tasks>>
       /\ (agentManager # Null /\ agentManager' = Null)
          => /\ InitializePending
             /\ UNCHANGED <<agents, activeContexts, previousMessages, last>>
       /\ agentManager = Null
          => /\ agentManager' = Null
             /\ last'.op \in {"agent_chat", "research_and_create_page",
                              "create_project_plan", "index_notion_workspace",
                              "get_available_agents"}
             /\ last'.outcome = "error"
             /\ last'.error = ErrAgentSystem
             /\ UNCHANGED <<agents, activeContexts, previousMessages, tasks,
                            indexVars, sessionData>>]_vars

\* agent_chat was called before initialize() settled: the reply is the error,
\* and the context of the call is registered, holding the user message
C28_Witness ==
    /\ InitializePending
    /\ last.op = "chat"
    /\ last.outcome = "error"
    /\ last.error = "Agent not available"
    /\ last.conv \in activeContexts
    /\ Len(previousMessages[last.conv]) = 1

\* initialize() failed after a call in the window; agent_chat now replies that
\* the agent system is not available
C28_DiscardedWitness ==
    /\ agentManager = Null
    /\ activeContexts # {}
    /\ last.op = "agent_chat"
    /\ last.error = ErrAgentSystem

====
